---- MODULE Spec2Model ----
(***************************************************************************)
(* Model of the Mattermost PagerDuty plugin's webhook correlator           *)
(* (HandleWebhook .. storeIncidentAttachment) and of its action dispatcher *)
(* (HandleIncidentAction, performReassign), with the signature verifier    *)
(* (verifyWebhookSignature) the webhook handler calls.                     *)
(*                                                                         *)
(* A webhook delivery is a request handler that runs on its own goroutine; *)
(* it is modelled step by step, one step per call into the Mattermost      *)
(* plugin API that reads or writes shared state (KV store, posts).  The    *)
(* plugin API calls are collaborators: each may succeed or fail.           *)
(*                                                                         *)
(* The PagerDuty client (GetIncident .. ListUsers) is modelled at the      *)
(* level of the HTTP requests it sends and of the replies it receives,     *)
(* together with the callers that build its list options and with          *)
(* OnActivate, which creates it.                                           *)
(***************************************************************************)
EXTENDS Integers, Sequences, FiniteSets, TLC

VARIABLES
    kv,          \* plugin KV store: key -> optional stored bytes
    posts,       \* posts created in Mattermost, PostID = index
    pc,          \* per webhook handler: position in the code
    event,       \* per webhook handler: the decoded V3Event being processed
    channelID,   \* per webhook handler: channelID local of processWebhookMessage
    attachment,  \* per webhook handler: attachment local of processWebhookMessage
    calls,       \* per webhook handler: plugin API calls issued so far, in order
    resp,        \* per webhook handler: HTTP status written to the response
    pre,         \* per webhook handler: record of the incident when the request arrived
    act,         \* the last action request handled: inputs, remote calls, response
    req,         \* per webhook handler: the HTTP request being handled
    verification,\* per webhook handler: what verifyWebhookSignature returned, if called
    secret,      \* configuration: WebhookSecret, empty when none is configured
    plugin,      \* what OnActivate was given and what it left in the Plugin struct
    client       \* the last operation of the PagerDuty client: request(s), reply, result

vars == <<kv, posts, pc, event, channelID, attachment, calls, resp, pre, act,
          req, verification, secret, plugin, client>>

----------------------------------------------------------------------------
(* Bounds *)

\* Cap on the number of posts the Mattermost server accepts in a run.
MaxPosts == 2

\* Longest request body, in bytes, that the signature verifier is run on.
MaxBytes == 2

----------------------------------------------------------------------------
(* Program constants *)

ActionAcknowledge == "acknowledge"
ActionResolve == "resolve"
ActionReassign == "reassign"

EventIncidentTriggered == "incident.triggered"
EventIncidentAcknowledged == "incident.acknowledged"
EventIncidentResolved == "incident.resolved"
EventIncidentReassigned == "incident.reassigned"
EventIncidentStatusUpdated == "incident.status_update_published"

KeyIncidentAttachments == "incident_attachments:"

StatusTriggered == "triggered"
StatusAcknowledged == "acknowledged"
StatusResolved == "resolved"

StatusOK == 200
StatusBadRequest == 400
StatusUnauthorized == 401
StatusMethodNotAllowed == 405
StatusInternalServerError == 500

----------------------------------------------------------------------------
(* Optional values: a nil pointer / absent value is the empty sequence *)

None == <<>>
Some(x) == <<x>>
IsSome(o) == Len(o) = 1
Get(o) == o[1]

----------------------------------------------------------------------------
(* Input domains *)

Workers == {"w1", "w2"}

IncidentIDs == {"INC1", "INC2"}
Statuses == {StatusTriggered, StatusAcknowledged, StatusResolved}

\* pagerduty.Incident, reduced to the fields the correlator and renderer read
Incident(id, status, urgency) == [ID |-> id, Status |-> status, Urgency |-> urgency]

\* the incidents webhook payloads carry: INC1 in every status, and a second
\* incident that is only ever triggered
Incidents ==
    {Incident("INC1", s, "high") : s \in Statuses}
    \cup {Incident("INC2", StatusTriggered, "high")}

RecognizedEvents ==
    {EventIncidentTriggered, EventIncidentAcknowledged, EventIncidentResolved,
     EventIncidentReassigned, EventIncidentStatusUpdated}

UpdateEvents == RecognizedEvents \ {EventIncidentTriggered}

EventTypes == RecognizedEvents \cup {"incident.annotated"}

\* pagerduty.V3Event: incident events, and events of another resource with
\* every event_type
V3Events ==
    {e \in [event_type : EventTypes, resource_type : {"incident"}, data : Incidents] :
        e.data.ID = "INC2" => e.event_type = EventIncidentTriggered}
    \cup
    [event_type : EventTypes, resource_type : {"service"},
     data : {i \in Incidents : i.ID = "INC1" /\ i.Status = StatusTriggered}]

\* the zero value of pagerduty.V3Event: what json.Unmarshal leaves in
\* V3WebhookPayload.Event when the body has no "event" key
ZeroEvent == [event_type |-> "", resource_type |-> "", data |-> Incident("", "", "")]

\* pagerduty.WebhookMessage, as carried in the "messages" key of a
\* pagerduty.WebhookPayload
WebhookMessage(ev, incident) == [Event |-> ev, Incident |-> incident]

\* the message lists of WebhookPayload bodies: one or two messages about INC1
MessageLists ==
    {<<WebhookMessage(EventIncidentTriggered, Incident("INC1", StatusTriggered, "high"))>>,
     <<WebhookMessage(EventIncidentTriggered, Incident("INC1", StatusTriggered, "high")),
       WebhookMessage(EventIncidentAcknowledged,
                      Incident("INC1", StatusAcknowledged, "high"))>>,
     <<WebhookMessage("incident.annotated", Incident("INC1", StatusTriggered, "high")),
       WebhookMessage(EventIncidentResolved, Incident("INC1", StatusResolved, "high"))>>}

\* an HTTP request to /webhook: the method, the X-Pagerduty-Signature header
\* (a string, empty when absent), the bytes of the body that the verifier
\* digests, and, given apart from those bytes, the body's JSON content that
\* HandleWebhook decodes: whether it is valid JSON, whether the JSON value
\* fits a V3WebhookPayload (an object whose known keys have the types of the
\* struct's fields; the array [] does not), its "event" key (ZeroEvent when
\* absent) and its "messages" key (empty when absent)
NotJSON == [event_type |-> "", resource_type |-> "", data |-> None]

Request(method, json, fits, ev, messages, body, signature) ==
    [method |-> method, json |-> json, fits |-> fits, event |-> ev,
     messages |-> messages, body |-> body, signature |-> signature]

\* requests without a signature header: V3 payloads, WebhookPayload bodies,
\* a GET, a body that is a JSON array and a body that is not JSON
Requests ==
    {Request("POST", TRUE, TRUE, e, <<>>, <<>>, <<>>) : e \in V3Events}
    \cup {Request("POST", TRUE, TRUE, ZeroEvent, ms, <<>>, <<>>) : ms \in MessageLists}
    \cup {Request("GET", TRUE, TRUE, e, <<>>, <<>>, <<>>) :
             e \in {e \in V3Events : /\ e.event_type = EventIncidentTriggered
                                     /\ e.resource_type = "incident"
                                     /\ e.data.ID = "INC1"
                                     /\ e.data.Status = StatusTriggered}}
    \cup {Request("POST", TRUE, FALSE, ZeroEvent, <<>>, <<>>, <<>>)}
    \cup {Request("POST", FALSE, FALSE, NotJSON, <<>>, <<>>, <<>>)}

\* json.Unmarshal of the body into a V3WebhookPayload returns no error
Unmarshals(r) == r.json /\ r.fits

DefaultChannelID == "alerts-channel-id"

\* an HTTP request to /api/v1/incidents/{incident_id}/{action}: the
\* Mattermost-User-ID header, whether the body decodes, the path's incident
\* and action, and the body's assignee_id (read for reassign only)
ActionRequests ==
    {r \in [userID : {"", "mmuser1"}, json : BOOLEAN, incidentID : IncidentIDs,
            action : {ActionAcknowledge, ActionResolve, ActionReassign,
                      "launch_missiles"},
            assignee_id : {"", "fetch_users", "PDUSER1"}] :
        /\ r.action # ActionReassign => r.assignee_id = ""
        /\ ~r.json => r.assignee_id = ""}

\* the email GetUser reports for the acting user
Emails == {"a@example.com", ""}

\* pagerduty.User lists the remote API may return
UserLists ==
    {<<>>, <<[ID |-> "PDUSER1", Name |-> "Ann"]>>,
     <<[ID |-> "PDUSER1", Name |-> "Ann"], [ID |-> "PDUSER2", Name |-> "Bob"]>>}

----------------------------------------------------------------------------
(* Rendering *)

\* a renderer that offers the acknowledge button until the incident is resolved
getIncidentActions_ackUntilResolved(incident) ==
    (IF incident.Status # StatusResolved
     THEN <<ActionAcknowledge, ActionResolve>> ELSE <<>>)
    \o <<ActionReassign>>

\* the actions attached to an incident post
getIncidentActions(incident) ==
    (IF incident.Status = StatusTriggered THEN <<ActionAcknowledge>> ELSE <<>>)
    \o (IF incident.Status # StatusResolved THEN <<ActionResolve>> ELSE <<>>)
    \o <<ActionReassign>>

\* a renderer that colours by status alone: every triggered incident is red
createIncidentProps_statusOnly(incident) ==
    [Color |->
        IF incident.Status = StatusTriggered THEN "#FF0000"
        ELSE IF incident.Status = StatusAcknowledged THEN "#FFFF00"
        ELSE IF incident.Status = StatusResolved THEN "#008000"
        ELSE "#FFA500",
     Urgency |-> incident.Urgency,
     IncidentID |-> incident.ID,
     Actions |-> getIncidentActions(incident)]

\* the props of an incident post
createIncidentProps(incident) ==
    [Color |->
        IF incident.Status = StatusTriggered
        THEN (IF incident.Urgency = "high" THEN "#FF0000" ELSE "#FFA500")
        ELSE IF incident.Status = StatusAcknowledged THEN "#FFFF00"
        ELSE IF incident.Status = StatusResolved THEN "#008000"
        ELSE "#FFA500",
     Urgency |-> incident.Urgency,
     IncidentID |-> incident.ID,
     Actions |-> getIncidentActions(incident)]

\* the post handed to CreatePost
createIncidentPost(incident, channel) ==
    [ChannelId |-> channel, Props |-> createIncidentProps(incident), DeleteAt |-> 0]

----------------------------------------------------------------------------
(* KV store encoding of a PostAttachment *)

\* a PostAttachment built without the identifier of the created post
PostAttachment_withoutPostID(id, postID, channel, incident) ==
    [ID |-> id, PostID |-> 0, ChannelID |-> channel, Incident |-> incident]

PostAttachment(id, postID, channel, incident) ==
    [ID |-> id, PostID |-> postID, ChannelID |-> channel, Incident |-> incident]

\* json.Marshal of a PostAttachment: an object keyed by the struct's json tags
Marshal(a) ==
    [id |-> a.ID, post_id |-> a.PostID, channel_id |-> a.ChannelID,
     incident |-> a.Incident]

\* json.Unmarshal into a PostAttachment
Unmarshal(b) ==
    [ID |-> b.id, PostID |-> b.post_id, ChannelID |-> b.channel_id,
     Incident |-> b.incident]

\* a key that leaves the incident identifier out: one key for all incidents
Key_shared(incidentID) == KeyIncidentAttachments

Key(incidentID) == KeyIncidentAttachments \o incidentID

Keys == {Key(i) : i \in IncidentIDs}

\* the PostAttachment stored for an incident, if any
Record(store, incidentID) ==
    IF IsSome(store[Key(incidentID)])
    THEN Some(Unmarshal(Get(store[Key(incidentID)])))
    ELSE None

\* GetPost succeeds on a post that exists and was not deleted
PostExists(ps, postID) ==
    postID \in 1..Len(ps) /\ ps[postID].DeleteAt = 0

----------------------------------------------------------------------------
(* Signature verifier.  Header values and hex digests are strings, modelled *)
(* as sequences of characters; bodies and secrets are sequences of bytes.  *)

\* byte strings of at most n bytes, over a two-value byte
ByteStrings(n) == UNION {[1..k -> {0, 1}] : k \in 0..n}

\* request bodies, and the webhook secrets an administrator may configure
Bodies == ByteStrings(MaxBytes)
Secrets == {<<0>>, <<1>>, <<0, 1>>}

\* a byte string read as a number, different for different byte strings
RECURSIVE Num(_)
Num(bs) ==
    IF bs = <<>> THEN 0
    ELSE Num(SubSeq(bs, 1, Len(bs) - 1)) * 3 + bs[Len(bs)] + 1

\* hmac.New(sha256.New, key), Write(msg), Sum(nil): a keyed digest, here a
\* two-byte digest that has no collisions on Bodies and Secrets
HMAC(key, msg) == (Num(msg) * 9 + Num(key)) % 65536

HexDigits ==
    <<"0", "1", "2", "3", "4", "5", "6", "7", "8", "9", "a", "b", "c", "d", "e", "f">>

\* hex.EncodeToString of a two-byte digest: four lower-case hex digits
EncodeToString(n) ==
    <<HexDigits[((n \div 4096) % 16) + 1], HexDigits[((n \div 256) % 16) + 1],
      HexDigits[((n \div 16) % 16) + 1], HexDigits[(n % 16) + 1]>>

V1Prefix == <<"v", "1", "=">>

\* strings.HasPrefix, strings.TrimPrefix
HasPrefix(str, prefix) ==
    Len(str) >= Len(prefix) /\ SubSeq(str, 1, Len(prefix)) = prefix
TrimPrefix(str, prefix) ==
    IF HasPrefix(str, prefix) THEN SubSeq(str, Len(prefix) + 1, Len(str)) ELSE str

\* the signature PagerDuty computes for a body under the subscription's secret
Sign(body, key) == EncodeToString(HMAC(key, body))

\* the errors of verifyWebhookSignature; "" is nil
ErrNoSignature == "no signature provided in X-Pagerduty-Signature header"
ErrInvalidSignature == "invalid signature"

\* what a call of verifyWebhookSignature leaves: the error returned and
\* whether r.Body was read
Verified(err, bodyRead) == [err |-> err, bodyRead |-> bodyRead]

\* a verifier that compares the header as it arrived, prefix included
verifyWebhookSignature_keepsPrefix(signature, body, key) ==
    IF signature = <<>>
    THEN Verified(ErrNoSignature, FALSE)
    ELSE IF signature = Sign(body, key)
         THEN Verified("", TRUE)
         ELSE Verified(ErrInvalidSignature, TRUE)

\* a verifier that reads the body first and knows one error only
verifyWebhookSignature_readsFirst(signature, body, key) ==
    IF TrimPrefix(signature, V1Prefix) = Sign(body, key)
    THEN Verified("", TRUE)
    ELSE Verified(ErrInvalidSignature, TRUE)

\* verifyWebhookSignature
verifyWebhookSignature(signature, body, key) ==
    IF signature = <<>>
    THEN Verified(ErrNoSignature, FALSE)
    ELSE LET providedSignature == TrimPrefix(signature, V1Prefix)
             calculatedSignature == EncodeToString(HMAC(key, body))
         IN IF providedSignature = calculatedSignature
            THEN Verified("", TRUE)
            ELSE Verified(ErrInvalidSignature, TRUE)

\* header values: none, the bare prefix, and the signature of every body
\* under every secret, with and without the prefix
Headers ==
    {<<>>, V1Prefix}
    \cup {prefix \o Sign(b, k) : prefix \in {<<>>, V1Prefix}, b \in Bodies, k \in Secrets}

----------------------------------------------------------------------------
(* Activation *)

\* the Plugin struct as OnActivate leaves it: the error returned ("" for nil),
\* p.botUserID, whether p.pdClient is set and whether the slash command is
\* registered
PluginState(err, botUserID, pdClient, registered) ==
    [err |-> err, botUserID |-> botUserID, pdClient |-> pdClient,
     registered |-> registered]

\* an OnActivate that only warns about a missing API key and goes on
onActivate_warnsOnEmptyKey(botOk, apiKey, registerOk) ==
    LET botUserID == IF botOk THEN "bot-user-id" ELSE ""
    IN IF ~registerOk
       THEN PluginState("failed to register commands", botUserID, apiKey # "", FALSE)
       ELSE PluginState("", botUserID, apiKey # "", TRUE)

\* OnActivate, as a function of whether EnsureBot succeeds, of the configured
\* PagerDutyAPIKey and of whether SlashCommand.Register succeeds
onActivate(botOk, apiKey, registerOk) ==
    LET botUserID == IF botOk THEN "bot-user-id" ELSE ""
    IN IF apiKey = ""
       THEN PluginState("failed to initialize PagerDuty client", botUserID, FALSE, FALSE)
       ELSE IF ~registerOk
       THEN PluginState("failed to register commands", botUserID, TRUE, FALSE)
       ELSE PluginState("", botUserID, TRUE, TRUE)

\* the plugin before OnActivate ran
Loaded == [activated |-> FALSE,
           env |-> [botOk |-> FALSE, apiKey |-> "", registerOk |-> FALSE],
           out |-> PluginState("", "", FALSE, FALSE)]

\* the plugin after OnActivate ran with these inputs
Activation(botOk, apiKey, registerOk) ==
    [activated |-> TRUE,
     env |-> [botOk |-> botOk, apiKey |-> apiKey, registerOk |-> registerOk],
     out |-> onActivate(botOk, apiKey, registerOk)]

\* the plugin serves requests: OnActivate returned nil
Active == plugin.activated /\ plugin.out.err = ""

APIKeys == {"", "pd-api-key"}

----------------------------------------------------------------------------
(* Webhook handler *)

Call(api, ok) == [api |-> api, ok |-> ok]

NoPre == [rec |-> None, alive |-> FALSE]

\* the plugin after activation, with WebhookSecret set to key
Start(key) ==
    /\ kv = [k \in Keys |-> None]
    /\ posts = <<>>
    /\ pc = [w \in Workers |-> "idle"]
    /\ event = [w \in Workers |-> None]
    /\ channelID = [w \in Workers |-> ""]
    /\ attachment = [w \in Workers |-> None]
    /\ calls = [w \in Workers |-> <<>>]
    /\ resp = [w \in Workers |-> 0]
    /\ pre = [w \in Workers |-> NoPre]
    /\ act = None
    /\ req = [w \in Workers |-> None]
    /\ verification = [w \in Workers |-> None]
    /\ secret = key
    /\ plugin = Activation(TRUE, "pd-api-key", TRUE)
    /\ client = None

\* no webhook secret is configured
Init == Start(<<>>)

\* the handler writes its response and returns
Reply(w, status) ==
    /\ pc' = [pc EXCEPT ![w] = "done"]
    /\ resp' = [resp EXCEPT ![w] = status]

\* a normalizer whose switch lacks the status_update_published case
processV3WebhookEvent_noStatusUpdate(ev) ==
    IF ev.resource_type # "incident" THEN None
    ELSE IF ev.event_type \in {"incident.triggered", "incident.acknowledged",
                               "incident.resolved", "incident.reassigned"}
         THEN Some(ev.event_type)
    ELSE None

\* a normalizer that does not look at resource_type
processV3WebhookEvent_anyResource(ev) ==
    IF ev.event_type \in RecognizedEvents THEN Some(ev.event_type) ELSE None

\* processV3WebhookEvent: the messageEvent of a V3 event, None when it is ignored
processV3WebhookEvent(ev) ==
    IF ev.resource_type # "incident" THEN None
    ELSE IF ev.event_type = "incident.triggered" THEN Some(EventIncidentTriggered)
    ELSE IF ev.event_type = "incident.acknowledged" THEN Some(EventIncidentAcknowledged)
    ELSE IF ev.event_type = "incident.resolved" THEN Some(EventIncidentResolved)
    ELSE IF ev.event_type = "incident.reassigned" THEN Some(EventIncidentReassigned)
    ELSE IF ev.event_type = "incident.status_update_published"
         THEN Some(EventIncidentStatusUpdated)
    ELSE None

\* HandleWebhook without its signature block: the method check, the decoding
\* of the body into a V3WebhookPayload and processV3WebhookEvent up to the
\* call of processWebhookMessage
Deliver(w, r) ==
    IF r.method # "POST"
    THEN /\ Reply(w, StatusMethodNotAllowed)
         /\ UNCHANGED <<event, pre>>
    ELSE IF ~Unmarshals(r)
    THEN /\ Reply(w, StatusBadRequest)
         /\ UNCHANGED <<event, pre>>
    ELSE /\ event' = [event EXCEPT ![w] = Some(r.event)]
         /\ IF IsSome(processV3WebhookEvent(r.event))
            THEN /\ pc' = [pc EXCEPT ![w] = "processWebhookMessage"]
                 /\ pre' = [pre EXCEPT ![w] =
                       [rec |-> Record(kv, r.event.data.ID),
                        alive |-> /\ IsSome(Record(kv, r.event.data.ID))
                                  /\ PostExists(posts,
                                       Get(Record(kv, r.event.data.ID)).PostID)]]
                 /\ UNCHANGED resp
            ELSE /\ Reply(w, StatusOK)
                 /\ UNCHANGED pre

\* the signature block of HandleWebhook: with a secret configured the
\* signature is verified, and a failure is logged
VerifySignature(w, r) ==
    verification' = [verification EXCEPT ![w] =
        IF r.method = "POST" /\ secret # <<>>
        THEN Some(verifyWebhookSignature(r.signature, r.body, secret))
        ELSE None]

\* a HandleWebhook that handles a GET like a POST
HandleWebhook_anyMethod(w, r) ==
    /\ pc[w] = "idle"
    /\ req' = [req EXCEPT ![w] = Some(r)]
    /\ VerifySignature(w, r)
    /\ Deliver(w, [r EXCEPT !.method = "POST"])
    /\ UNCHANGED <<kv, posts, channelID, attachment, calls, act, secret, plugin, client>>

\* a HandleWebhook that rejects a request whose signature does not verify
HandleWebhook_enforcesSignature(w, r) ==
    /\ pc[w] = "idle"
    /\ req' = [req EXCEPT ![w] = Some(r)]
    /\ VerifySignature(w, r)
    /\ IF /\ r.method = "POST" /\ secret # <<>>
          /\ verifyWebhookSignature(r.signature, r.body, secret).err # ""
       THEN /\ Reply(w, StatusUnauthorized)
            /\ UNCHANGED <<event, pre>>
       ELSE Deliver(w, r)
    /\ UNCHANGED <<kv, posts, channelID, attachment, calls, act, secret, plugin, client>>

\* HandleWebhook up to the call of processWebhookMessage
HandleWebhook(w, r) ==
    /\ pc[w] = "idle"
    /\ req' = [req EXCEPT ![w] = Some(r)]
    /\ VerifySignature(w, r)
    /\ Deliver(w, r)
    /\ UNCHANGED <<kv, posts, channelID, attachment, calls, act, secret, plugin, client>>

\* the WebhookMessage built by processV3WebhookEvent
Message(w) ==
    [Event |-> Get(processV3WebhookEvent(Get(event[w]))),
     Incident |-> Get(event[w]).data]

\* a getIncidentAttachment that returns what it decoded along with its error
getIncidentAttachment_keepsValue(store, incidentID, ok) ==
    Record(store, incidentID)

\* getIncidentAttachment: KVGet and Unmarshal; ok is FALSE when KVGet fails or
\* the bytes do not unmarshal, and the attachment returned is then nil
getIncidentAttachment(store, incidentID, ok) ==
    IF ok THEN Record(store, incidentID) ELSE None

\* a switch that drops an update event when the incident has no record
Dispatch_dropsUnknownIncident(ev, att) ==
    IF ev = EventIncidentTriggered THEN "CreatePost"
    ELSE IF ev \in UpdateEvents /\ IsSome(att) THEN "GetPost"
    ELSE "ignore"

\* the switch of processWebhookMessage: the next call for an event and attachment
Dispatch(ev, att) ==
    IF ev = EventIncidentTriggered THEN "CreatePost"
    ELSE IF ev \in UpdateEvents
         THEN (IF IsSome(att) THEN "GetPost" ELSE "CreatePost")
    ELSE "ignore"

\* a processWebhookMessage that logs a failed channel look-up and goes on
\* with an empty channel
ProcessWebhookMessage_ignoresChannelError(w, chOk, kvOk) ==
    /\ pc[w] = "processWebhookMessage"
    /\ UNCHANGED <<kv, posts, event, pre, act, req, verification, secret, plugin, client>>
    /\ LET att == getIncidentAttachment(kv, Message(w).Incident.ID, kvOk)
           next == Dispatch(Message(w).Event, att)
       IN /\ calls' = [calls EXCEPT ![w] =
                @ \o <<Call("GetChannel", chOk), Call("KVGet", kvOk)>>]
          /\ channelID' = [channelID EXCEPT ![w] = IF chOk THEN DefaultChannelID ELSE ""]
          /\ attachment' = [attachment EXCEPT ![w] = att]
          /\ IF next = "ignore"
             THEN Reply(w, StatusOK)
             ELSE /\ pc' = [pc EXCEPT ![w] = next]
                  /\ UNCHANGED resp

\* processWebhookMessage: getChannelID, getIncidentAttachment, switch
ProcessWebhookMessage(w, chOk, kvOk) ==
    /\ pc[w] = "processWebhookMessage"
    /\ UNCHANGED <<kv, posts, event, pre, act, req, verification, secret, plugin, client>>
    /\ IF ~chOk
       THEN /\ calls' = [calls EXCEPT ![w] = Append(@, Call("GetChannel", FALSE))]
            /\ Reply(w, StatusInternalServerError)
            /\ UNCHANGED <<channelID, attachment>>
       ELSE LET att == getIncidentAttachment(kv, Message(w).Incident.ID, kvOk)
                next == Dispatch(Message(w).Event, att)
            IN /\ calls' = [calls EXCEPT ![w] =
                     @ \o <<Call("GetChannel", TRUE), Call("KVGet", kvOk)>>]
               /\ channelID' = [channelID EXCEPT ![w] = DefaultChannelID]
               /\ attachment' = [attachment EXCEPT ![w] = att]
               /\ IF next = "ignore"
                  THEN Reply(w, StatusOK)
                  ELSE /\ pc' = [pc EXCEPT ![w] = next]
                       /\ UNCHANGED resp

\* the channel handleTriggeredIncident posts to: the resolved channel, or the
\* record's channel when called from updateIncidentPost
TargetChannel(w) ==
    IF calls[w] # <<>> /\ calls[w][Len(calls[w])].api = "GetPost"
    THEN Get(attachment[w]).ChannelID
    ELSE channelID[w]

\* handleTriggeredIncident, first half: CreatePost
CreatePost(w, ok) ==
    /\ pc[w] = "CreatePost"
    /\ ok => Len(posts) < MaxPosts
    /\ UNCHANGED <<kv, event, channelID, pre, act, req, verification, secret, plugin, client>>
    /\ calls' = [calls EXCEPT ![w] = Append(@, Call("CreatePost", ok))]
    /\ IF ok
       THEN /\ posts' = Append(posts,
                   createIncidentPost(Message(w).Incident, TargetChannel(w)))
            /\ attachment' = [attachment EXCEPT ![w] =
                   Some(PostAttachment(Message(w).Incident.ID, Len(posts) + 1,
                                       TargetChannel(w), Message(w).Incident))]
            /\ pc' = [pc EXCEPT ![w] = "KVSet"]
            /\ UNCHANGED resp
       ELSE /\ Reply(w, StatusInternalServerError)
            /\ UNCHANGED <<posts, attachment>>

\* an updateIncidentPost that reports a failed GetPost as an error
GetPost_failsDelivery(w, ok) ==
    /\ pc[w] = "GetPost"
    /\ ok => PostExists(posts, Get(attachment[w]).PostID)
    /\ UNCHANGED <<kv, posts, event, channelID, attachment, pre, act, req, verification, secret, plugin, client>>
    /\ calls' = [calls EXCEPT ![w] = Append(@, Call("GetPost", ok))]
    /\ IF ok
       THEN pc' = [pc EXCEPT ![w] = "UpdatePost"] /\ UNCHANGED resp
       ELSE Reply(w, StatusInternalServerError)

\* updateIncidentPost, first call: GetPost
GetPost(w, ok) ==
    /\ pc[w] = "GetPost"
    /\ ok => PostExists(posts, Get(attachment[w]).PostID)
    /\ UNCHANGED <<kv, posts, event, channelID, attachment, resp, pre, act, req, verification, secret, plugin, client>>
    /\ calls' = [calls EXCEPT ![w] = Append(@, Call("GetPost", ok))]
    /\ pc' = [pc EXCEPT ![w] = IF ok THEN "UpdatePost" ELSE "CreatePost"]

\* an updateIncidentPost that stores the attachment as it was read
UpdatePost_keepsSnapshot(w, ok) ==
    /\ pc[w] = "UpdatePost"
    /\ ok => PostExists(posts, Get(attachment[w]).PostID)
    /\ UNCHANGED <<kv, event, channelID, attachment, pre, act, req, verification, secret, plugin, client>>
    /\ calls' = [calls EXCEPT ![w] = Append(@, Call("UpdatePost", ok))]
    /\ IF ok
       THEN /\ posts' = [posts EXCEPT ![Get(attachment[w]).PostID].Props =
                            createIncidentProps(Message(w).Incident)]
            /\ pc' = [pc EXCEPT ![w] = "KVSet"]
            /\ UNCHANGED resp
       ELSE /\ Reply(w, StatusInternalServerError)
            /\ UNCHANGED posts

\* an updateIncidentPost that logs a failed UpdatePost and stores the new
\* snapshot all the same
UpdatePost_ignoresError(w, ok) ==
    /\ pc[w] = "UpdatePost"
    /\ ok => PostExists(posts, Get(attachment[w]).PostID)
    /\ UNCHANGED <<kv, event, channelID, pre, act, req, verification, secret, plugin, client>>
    /\ calls' = [calls EXCEPT ![w] = Append(@, Call("UpdatePost", ok))]
    /\ posts' = IF ok
                THEN [posts EXCEPT ![Get(attachment[w]).PostID].Props =
                         createIncidentProps(Message(w).Incident)]
                ELSE posts
    /\ attachment' = [attachment EXCEPT ![w] =
           Some([Get(@) EXCEPT !.Incident = Message(w).Incident])]
    /\ pc' = [pc EXCEPT ![w] = "KVSet"]
    /\ UNCHANGED resp

\* an updateIncidentPost that creates a new message when UpdatePost fails
UpdatePost_fallsBackToCreate(w, ok) ==
    /\ pc[w] = "UpdatePost"
    /\ ok => PostExists(posts, Get(attachment[w]).PostID)
    /\ UNCHANGED <<kv, event, channelID, pre, act, req, verification, secret, plugin, client>>
    /\ calls' = [calls EXCEPT ![w] = Append(@, Call("UpdatePost", ok))]
    /\ UNCHANGED resp
    /\ IF ok
       THEN /\ posts' = [posts EXCEPT ![Get(attachment[w]).PostID].Props =
                            createIncidentProps(Message(w).Incident)]
            /\ attachment' = [attachment EXCEPT ![w] =
                   Some([Get(@) EXCEPT !.Incident = Message(w).Incident])]
            /\ pc' = [pc EXCEPT ![w] = "KVSet"]
       ELSE /\ pc' = [pc EXCEPT ![w] = "CreatePost"]
            /\ UNCHANGED <<posts, attachment>>

\* an updateIncidentPost that overwrites the stored snapshot before it asks
\* for the update of the message
UpdatePost_storesFirst(w, ok) ==
    /\ pc[w] = "UpdatePost"
    /\ ok => PostExists(posts, Get(attachment[w]).PostID)
    /\ UNCHANGED <<event, channelID, pre, act, req, verification, secret, plugin, client>>
    /\ calls' = [calls EXCEPT ![w] = Append(@, Call("UpdatePost", ok))]
    /\ attachment' = [attachment EXCEPT ![w] =
           Some([Get(@) EXCEPT !.Incident = Message(w).Incident])]
    /\ kv' = [kv EXCEPT ![Key(Get(attachment[w]).ID)] =
                 Some(Marshal([Get(attachment[w]) EXCEPT
                                  !.Incident = Message(w).Incident]))]
    /\ IF ok
       THEN /\ posts' = [posts EXCEPT ![Get(attachment[w]).PostID].Props =
                            createIncidentProps(Message(w).Incident)]
            /\ Reply(w, StatusOK)
       ELSE /\ Reply(w, StatusInternalServerError)
            /\ UNCHANGED posts

\* updateIncidentPost, second call: UpdatePost with the new props
UpdatePost(w, ok) ==
    /\ pc[w] = "UpdatePost"
    /\ ok => PostExists(posts, Get(attachment[w]).PostID)
    /\ UNCHANGED <<kv, event, channelID, pre, act, req, verification, secret, plugin, client>>
    /\ calls' = [calls EXCEPT ![w] = Append(@, Call("UpdatePost", ok))]
    /\ IF ok
       THEN /\ posts' = [posts EXCEPT ![Get(attachment[w]).PostID].Props =
                            createIncidentProps(Message(w).Incident)]
            /\ attachment' = [attachment EXCEPT ![w] =
                   Some([Get(@) EXCEPT !.Incident = Message(w).Incident])]
            /\ pc' = [pc EXCEPT ![w] = "KVSet"]
            /\ UNCHANGED resp
       ELSE /\ Reply(w, StatusInternalServerError)
            /\ UNCHANGED <<posts, attachment>>

\* a storeIncidentAttachment that writes only when the key holds no record
storeIncidentAttachment_ifAbsent(store, att) ==
    IF IsSome(store[Key(att.ID)])
    THEN store
    ELSE [store EXCEPT ![Key(att.ID)] = Some(Marshal(att))]

\* a storeIncidentAttachment that removes the record of a resolved incident
storeIncidentAttachment_dropsResolved(store, att) ==
    IF att.Incident.Status = StatusResolved
    THEN [store EXCEPT ![Key(att.ID)] = None]
    ELSE [store EXCEPT ![Key(att.ID)] = Some(Marshal(att))]

\* storeIncidentAttachment: Marshal and KVSet of the attachment
storeIncidentAttachment(store, att) ==
    [store EXCEPT ![Key(att.ID)] = Some(Marshal(att))]

\* a store step that logs a failed write and reports success
KVSet_swallowsError(w, ok) ==
    /\ pc[w] = "KVSet"
    /\ UNCHANGED <<posts, event, channelID, attachment, pre, act, req, verification, secret, plugin, client>>
    /\ calls' = [calls EXCEPT ![w] = Append(@, Call("KVSet", ok))]
    /\ kv' = IF ok THEN storeIncidentAttachment(kv, Get(attachment[w])) ELSE kv
    /\ Reply(w, StatusOK)

\* handleTriggeredIncident / updateIncidentPost, last call: store the attachment
KVSet(w, ok) ==
    /\ pc[w] = "KVSet"
    /\ UNCHANGED <<posts, event, channelID, attachment, pre, act, req, verification, secret, plugin, client>>
    /\ calls' = [calls EXCEPT ![w] = Append(@, Call("KVSet", ok))]
    /\ IF ok
       THEN /\ kv' = storeIncidentAttachment(kv, Get(attachment[w]))
            /\ Reply(w, StatusOK)
       ELSE /\ Reply(w, StatusInternalServerError)
            /\ UNCHANGED kv

\* the response has been sent; the handler's goroutine ends
Finish(w) ==
    /\ pc[w] = "done"
    /\ pc' = [pc EXCEPT ![w] = "idle"]
    /\ event' = [event EXCEPT ![w] = None]
    /\ channelID' = [channelID EXCEPT ![w] = ""]
    /\ attachment' = [attachment EXCEPT ![w] = None]
    /\ calls' = [calls EXCEPT ![w] = <<>>]
    /\ resp' = [resp EXCEPT ![w] = 0]
    /\ pre' = [pre EXCEPT ![w] = NoPre]
    /\ req' = [req EXCEPT ![w] = None]
    /\ verification' = [verification EXCEPT ![w] = None]
    /\ UNCHANGED <<kv, posts, act, secret, plugin, client>>

\* a user deletes a post in Mattermost
DeletePost(p) ==
    /\ p \in 1..Len(posts)
    /\ posts[p].DeleteAt = 0
    /\ posts' = [posts EXCEPT ![p].DeleteAt = 1]
    /\ UNCHANGED <<kv, pc, event, channelID, attachment, calls, resp, pre, act, req, verification, secret, plugin, client>>

----------------------------------------------------------------------------
(* Action dispatcher *)

\* a call of the PagerDuty client
UpdateIncident(incidentID, status, userEmail, note) ==
    [api |-> "update", id |-> incidentID, status |-> status, assignees |-> <<>>,
     from |-> userEmail, note |-> note]

AssignIncident(incidentID, userIDs, userEmail) ==
    [api |-> "assign", id |-> incidentID, status |-> "", assignees |-> userIDs,
     from |-> userEmail, note |-> ""]

ListUsers ==
    [api |-> "listUsers", id |-> "", status |-> "", assignees |-> <<>>,
     from |-> "", note |-> ""]

\* a response written without WriteHeader: the status stays 200
Outcome_noWriteHeader(remote, status, text, options, returned) ==
    [remote |-> remote, status |-> StatusOK, text |-> text, options |-> options,
     returned |-> returned]

\* what a handled action request leaves: the remote calls it issued, the
\* response written, and the incident a successful mutation returned
Outcome(remote, status, text, options, returned) ==
    [remote |-> remote, status |-> status, text |-> text, options |-> options,
     returned |-> returned]

\* the options of the reassign selector, one per user
UserOptions(users) ==
    [i \in 1..Len(users) |-> [Text |-> users[i].Name, Value |-> users[i].ID]]

\* a performReassign that knows no "fetch_users" sentinel
performReassign_noSentinel(incidentID, assigneeID, userEmail, remoteOk, users, returned) ==
    IF ~remoteOk
    THEN Outcome(<<AssignIncident(incidentID, <<assigneeID>>, userEmail)>>,
                 StatusInternalServerError, "Failed to assign incident", <<>>, None)
    ELSE Outcome(<<AssignIncident(incidentID, <<assigneeID>>, userEmail)>>,
                 StatusOK, "success", <<>>, Some(returned))

\* a performReassign that sets the status through UpdateIncident before it
\* assigns
performReassign_updatesFirst(incidentID, assigneeID, userEmail, remoteOk, users, returned) ==
    IF assigneeID = "fetch_users"
    THEN Outcome(<<ListUsers>>, IF remoteOk THEN StatusOK ELSE StatusInternalServerError,
                 IF remoteOk THEN "update" ELSE "Failed to list users",
                 IF remoteOk THEN UserOptions(users) ELSE <<>>, None)
    ELSE Outcome(<<UpdateIncident(incidentID, StatusTriggered, userEmail, ""),
                   AssignIncident(incidentID, <<assigneeID>>, userEmail)>>,
                 IF remoteOk THEN StatusOK ELSE StatusInternalServerError,
                 IF remoteOk THEN "success" ELSE "Failed to assign incident",
                 <<>>, IF remoteOk THEN Some(returned) ELSE None)

\* performReassign
performReassign(incidentID, assigneeID, userEmail, remoteOk, users, returned) ==
    IF assigneeID = "fetch_users"
    THEN IF ~remoteOk
         THEN Outcome(<<ListUsers>>, StatusInternalServerError,
                      "Failed to list users", <<>>, None)
         ELSE Outcome(<<ListUsers>>, StatusOK, "update", UserOptions(users), None)
    ELSE IF ~remoteOk
         THEN Outcome(<<AssignIncident(incidentID, <<assigneeID>>, userEmail)>>,
                      StatusInternalServerError, "Failed to assign incident", <<>>, None)
         ELSE Outcome(<<AssignIncident(incidentID, <<assigneeID>>, userEmail)>>,
                      StatusOK, "success", <<>>, Some(returned))

\* a switch without its default branch: status keeps its zero value
ActionStatus_noDefault(action) ==
    IF action = ActionAcknowledge THEN Some(StatusAcknowledged)
    ELSE IF action = ActionResolve THEN Some(StatusResolved)
    ELSE Some("")

\* a switch with the two statuses exchanged
ActionStatus_swapped(action) ==
    IF action = ActionAcknowledge THEN Some(StatusResolved)
    ELSE IF action = ActionResolve THEN Some(StatusAcknowledged)
    ELSE None

\* the switch of HandleIncidentAction for the actions other than reassign:
\* the status to set, None for an invalid action
ActionStatus(action) ==
    IF action = ActionAcknowledge THEN Some(StatusAcknowledged)
    ELSE IF action = ActionResolve THEN Some(StatusResolved)
    ELSE None

\* a HandleIncidentAction that logs a failed user look-up and goes on with an
\* empty email
handleIncidentAction_ignoresLookupError(r, userOk, email, remoteOk, users, returned) ==
    LET userEmail == IF userOk THEN email ELSE ""
    IN IF r.userID = ""
       THEN Outcome(<<>>, StatusUnauthorized, "Not authorized", <<>>, None)
       ELSE IF ~r.json
       THEN Outcome(<<>>, StatusBadRequest, "Invalid request", <<>>, None)
       ELSE IF r.action = ActionReassign
       THEN performReassign(r.incidentID, r.assignee_id, userEmail, remoteOk, users,
                            returned)
       ELSE IF ActionStatus(r.action) = None
       THEN Outcome(<<>>, StatusBadRequest, "Invalid action", <<>>, None)
       ELSE Outcome(<<UpdateIncident(r.incidentID, Get(ActionStatus(r.action)),
                                     userEmail, "")>>,
                    IF remoteOk THEN StatusOK ELSE StatusInternalServerError,
                    IF remoteOk THEN "success" ELSE "Failed to update incident",
                    <<>>, IF remoteOk THEN Some(returned) ELSE None)

\* HandleIncidentAction, as a function of the request and of what the
\* collaborators answer
handleIncidentAction(r, userOk, email, remoteOk, users, returned) ==
    IF r.userID = ""
    THEN Outcome(<<>>, StatusUnauthorized, "Not authorized", <<>>, None)
    ELSE IF ~r.json
    THEN Outcome(<<>>, StatusBadRequest, "Invalid request", <<>>, None)
    ELSE IF ~userOk
    THEN Outcome(<<>>, StatusInternalServerError, "Failed to get user", <<>>, None)
    ELSE IF r.action = ActionReassign
    THEN performReassign(r.incidentID, r.assignee_id, email, remoteOk, users, returned)
    ELSE IF ActionStatus(r.action) = None
    THEN Outcome(<<>>, StatusBadRequest, "Invalid action", <<>>, None)
    ELSE LET status == Get(ActionStatus(r.action))
         IN IF ~remoteOk
            THEN Outcome(<<UpdateIncident(r.incidentID, status, email, "")>>,
                         StatusInternalServerError, "Failed to update incident",
                         <<>>, None)
            ELSE Outcome(<<UpdateIncident(r.incidentID, status, email, "")>>,
                         StatusOK, "success", <<>>, Some(returned))

\* the incident the remote API returns for a successful mutation
Returned(r) ==
    IF r.action = ActionAcknowledge
    THEN {Incident(r.incidentID, StatusAcknowledged, "high")}
    ELSE IF r.action = ActionResolve
    THEN {Incident(r.incidentID, StatusResolved, "high")}
    ELSE {Incident(r.incidentID, s, "high") : s \in {StatusTriggered, StatusAcknowledged}}

\* HandleIncidentAction: the whole handler; it touches neither kv nor posts.
\* act keeps the request, what the collaborators answered, and the outcome
HandleIncidentAction(r, userOk, email, remoteOk, users, returned) ==
    /\ act = None
    /\ act' = Some([req |-> r,
                    env |-> [userOk |-> userOk, email |-> email,
                             remoteOk |-> remoteOk, users |-> users,
                             returned |-> returned],
                    out |-> handleIncidentAction(r, userOk, email, remoteOk,
                                                 users, returned)])
    /\ UNCHANGED <<kv, posts, pc, event, channelID, attachment, calls, resp, pre,
                 req, verification, secret, plugin, client>>

\* the action response has been sent
FinishAction ==
    /\ act # None
    /\ act' = None
    /\ UNCHANGED <<kv, posts, pc, event, channelID, attachment, calls, resp, pre,
                 req, verification, secret, plugin, client>>

----------------------------------------------------------------------------
(* Router.  Requests are those of the routes ServeHTTP registers for        *)
(* hello, the three actions and the incident list, and for the webhook;     *)
(* what the mux library answers to other paths and methods is not modelled. *)

PathHello == "/api/v1/hello"
PathAcknowledge == "/api/v1/incidents/{incident_id}/acknowledge"
PathResolve == "/api/v1/incidents/{incident_id}/resolve"
PathReassign == "/api/v1/incidents/{incident_id}/reassign"
PathIncidents == "/api/v1/incidents"

ActionPaths == {PathAcknowledge, PathResolve, PathReassign}

\* the action kind handleAcknowledge, handleResolve and handleReassign pass on
PathAction(path) ==
    IF path = PathAcknowledge THEN ActionAcknowledge
    ELSE IF path = PathResolve THEN ActionResolve
    ELSE ActionReassign

\* what a routed request leaves: the handler reached ("" when none) and the
\* outcome written
Served(handler, out) == [handler |-> handler, out |-> out]

\* a router whose /api/v1 routes carry no middleware
serveHTTP_noMiddleware(r, userOk, email, remoteOk, users, returned) ==
    IF r.path = PathHello
    THEN Served("handleHello", Outcome(<<>>, StatusOK, "Hello, world!", <<>>, None))
    ELSE IF r.path \in ActionPaths
    THEN Served(IF r.userID = "" THEN "" ELSE "HandleIncidentAction",
                handleIncidentAction(
                    [userID |-> r.userID, json |-> r.json, incidentID |-> r.incidentID,
                     action |-> PathAction(r.path), assignee_id |-> r.assignee_id],
                    userOk, email, remoteOk, users, returned))
    ELSE Served("handleListIncidents",
                Outcome(<<[ListUsers EXCEPT !.api = "listIncidents"]>>,
                        IF remoteOk THEN StatusOK ELSE StatusInternalServerError,
                        IF remoteOk THEN "incidents" ELSE "Failed to list incidents",
                        <<>>, None))

\* an action route that trusts the incident_id and action of the JSON body
serveHTTP_trustsBody(r, userOk, email, remoteOk, users, returned) ==
    IF r.userID = ""
    THEN Served("", Outcome(<<>>, StatusUnauthorized, "Not authorized", <<>>, None))
    ELSE IF r.path = PathHello
    THEN Served("handleHello", Outcome(<<>>, StatusOK, "Hello, world!", <<>>, None))
    ELSE IF r.path \in ActionPaths
    THEN Served("HandleIncidentAction",
                handleIncidentAction(
                    [userID |-> r.userID, json |-> r.json,
                     incidentID |-> IF r.json THEN r.body.incident_id ELSE r.incidentID,
                     action |-> IF r.json THEN r.body.action ELSE PathAction(r.path),
                     assignee_id |-> r.assignee_id],
                    userOk, email, remoteOk, users, returned))
    ELSE Served("handleListIncidents",
                Outcome(<<[ListUsers EXCEPT !.api = "listIncidents"]>>,
                        IF remoteOk THEN StatusOK ELSE StatusInternalServerError,
                        IF remoteOk THEN "incidents" ELSE "Failed to list incidents",
                        <<>>, None))

\* ServeHTTP for a request to an /api/v1 route: the middleware
\* MattermostAuthorizationRequired, then the route's handler
serveHTTP(r, userOk, email, remoteOk, users, returned) ==
    IF r.userID = ""
    THEN Served("", Outcome(<<>>, StatusUnauthorized, "Not authorized", <<>>, None))
    ELSE IF r.path = PathHello
    THEN Served("handleHello", Outcome(<<>>, StatusOK, "Hello, world!", <<>>, None))
    ELSE IF r.path \in ActionPaths
    THEN Served("HandleIncidentAction",
                handleIncidentAction(
                    [userID |-> r.userID, json |-> r.json, incidentID |-> r.incidentID,
                     action |-> PathAction(r.path), assignee_id |-> r.assignee_id],
                    userOk, email, remoteOk, users, returned))
    ELSE Served("handleListIncidents",
                Outcome(<<[ListUsers EXCEPT !.api = "listIncidents"]>>,
                        IF remoteOk THEN StatusOK ELSE StatusInternalServerError,
                        IF remoteOk THEN "incidents" ELSE "Failed to list incidents",
                        <<>>, None))

\* ServeHTTP: the whole request; act keeps the request, what the
\* collaborators answered, the handler reached and the outcome
ServeHTTP(r, userOk, email, remoteOk, users, returned) ==
    /\ act = None
    /\ act' = Some([req |-> r,
                    env |-> [userOk |-> userOk, email |-> email,
                             remoteOk |-> remoteOk, users |-> users,
                             returned |-> returned],
                    handler |-> serveHTTP(r, userOk, email, remoteOk, users,
                                          returned).handler,
                    out |-> serveHTTP(r, userOk, email, remoteOk, users,
                                      returned).out])
    /\ UNCHANGED <<kv, posts, pc, event, channelID, attachment, calls, resp, pre,
                 req, verification, secret, plugin, client>>

----------------------------------------------------------------------------
(* PagerDuty client and its callers.  What a user types (a parameter value, *)
(* an incident identifier) is a string, modelled as a sequence of           *)
(* characters, so that strconv.Atoi and strconv.Itoa are computed.          *)

Digits == <<"0", "1", "2", "3", "4", "5", "6", "7", "8", "9">>

IsDigit(c) == \E d \in DOMAIN Digits : Digits[d] = c
DigitValue(c) == (CHOOSE d \in DOMAIN Digits : Digits[d] = c) - 1

RECURSIVE Decimal(_)
Decimal(ds) ==
    IF ds = <<>> THEN 0
    ELSE Decimal(SubSeq(ds, 1, Len(ds) - 1)) * 10 + DigitValue(ds[Len(ds)])

\* strconv.Atoi: an optional sign and one or more decimal digits (the values
\* the model parses are far from the range of int)
Atoi(str) ==
    LET signed == str # <<>> /\ str[1] \in {"+", "-"}
        ds == IF signed THEN Tail(str) ELSE str
    IN IF ds = <<>> \/ \E i \in DOMAIN ds : ~IsDigit(ds[i])
       THEN [ok |-> FALSE, n |-> 0]
       ELSE [ok |-> TRUE,
             n |-> IF signed /\ str[1] = "-" THEN 0 - Decimal(ds) ELSE Decimal(ds)]

RECURSIVE FormatNat(_)
FormatNat(n) ==
    IF n < 10 THEN <<Digits[n + 1]>>
    ELSE Append(FormatNat(n \div 10), Digits[(n % 10) + 1])

\* strconv.Itoa
Itoa(n) == IF n < 0 THEN <<"-">> \o FormatNat(0 - n) ELSE FormatNat(n)

\* url.Values, reduced to the keys limit, statuses[] and incident_number
NoOptions == [limit |-> None, statuses |-> None, incident_number |-> None]

DefaultLimit == <<"1", "0">>

\* the loop of listIncidentsCommand over the key=value parameters
RECURSIVE ParseParams(_, _)
ParseParams(params, options) ==
    IF params = <<>> THEN options
    ELSE LET param == Head(params)
             limit == Atoi(param.value)
         IN ParseParams(Tail(params),
                IF param.key = "limit"
                THEN (IF limit.ok /\ limit.n > 0 /\ limit.n <= 25
                      THEN [options EXCEPT !.limit = Some(param.value)]
                      ELSE options)
                ELSE IF param.key = "status"
                THEN [options EXCEPT !.statuses = Some(param.value)]
                ELSE options)

\* the options listIncidentsCommand hands to ListIncidents
listIncidentsCommand(params) ==
    ParseParams(params, [NoOptions EXCEPT !.limit = Some(DefaultLimit)])

\* an HTTP request of the client: method, endpoint (resource and identifier),
\* query, From header (None when not set) and payload
NoPayload == [status |-> "", note |-> None, assignments |-> <<>>]

HTTPRequest(method, resource, id, query, from, payload) ==
    [method |-> method, resource |-> resource, id |-> id, query |-> query,
     from |-> from, payload |-> payload]

GetIncidentRequest(incidentID) ==
    HTTPRequest("GET", "/incidents", incidentID, NoOptions, None, NoPayload)

ListIncidentsRequest(params) ==
    HTTPRequest("GET", "/incidents", "", params, None, NoPayload)

\* an UpdateIncident that sets the From header whatever the email
UpdateIncidentRequest_alwaysFrom(incidentID, status, userEmail, note) ==
    HTTPRequest("PUT", "/incidents", incidentID, NoOptions, Some(userEmail),
                [status |-> status,
                 note |-> IF note # "" THEN Some(note) ELSE None,
                 assignments |-> <<>>])

UpdateIncidentRequest(incidentID, status, userEmail, note) ==
    HTTPRequest("PUT", "/incidents", incidentID, NoOptions,
                IF userEmail # "" THEN Some(userEmail) ELSE None,
                [status |-> status,
                 note |-> IF note # "" THEN Some(note) ELSE None,
                 assignments |-> <<>>])

AssignIncidentRequest(incidentID, userIDs, userEmail) ==
    HTTPRequest("PUT", "/incidents", incidentID, NoOptions,
                IF userEmail # "" THEN Some(userEmail) ELSE None,
                [status |-> "", note |-> None, assignments |-> userIDs])

ListUsersRequest ==
    HTTPRequest("GET", "/users", "", NoOptions, None, NoPayload)

\* the request the client builds for a call of the action dispatcher
RequestOf(call) ==
    IF call.api = "update"
    THEN UpdateIncidentRequest(call.id, call.status, call.from, call.note)
    ELSE IF call.api = "assign"
    THEN AssignIncidentRequest(call.id, call.assignees, call.from)
    ELSE ListUsersRequest

\* getIncidentCommand: the client operation and request for an identifier
getIncidentCommand(identifier) ==
    IF Atoi(identifier).ok
    THEN [op |-> "ListIncidents",
          request |-> ListIncidentsRequest(
              [NoOptions EXCEPT !.incident_number = Some(Itoa(Atoi(identifier).n))])]
    ELSE [op |-> "GetIncident", request |-> GetIncidentRequest(identifier)]

\* what the remote API answers: no response at all (httpClient.Do fails), or
\* a response with a status, a body and whether the body decodes
TransportError == [received |-> FALSE, status |-> 0, body |-> "", decodes |-> FALSE]

Response(status, body, decodes) ==
    [received |-> TRUE, status |-> status, body |-> body, decodes |-> decodes]

ReplyStatuses == {StatusOK, 201, 202, StatusBadRequest, 404, StatusInternalServerError}

Replies ==
    {TransportError}
    \cup {Response(st, b, d) : st \in ReplyStatuses, b \in {"body-1", "body-2"},
                              d \in BOOLEAN}

\* what a client operation returns, with the requests it sent: the value on
\* success, else the error: its kind and, for a rejected status, the status
\* and body its message quotes
Result(sent, ok, err, status, body) ==
    [sent |-> sent, ok |-> ok, err |-> err, status |-> status, body |-> body]

\* a client that sends the request once more when no response came or the
\* server failed
Do_retriesOnce(request, reply) ==
    IF ~reply.received
    THEN Result(<<request, request>>, FALSE, "failed to send request", 0, "")
    ELSE IF reply.status # StatusOK
    THEN Result(IF reply.status >= StatusInternalServerError
                THEN <<request, request>> ELSE <<request>>,
                FALSE, "status", reply.status, reply.body)
    ELSE IF ~reply.decodes
    THEN Result(<<request>>, FALSE, "failed to decode response", 0, "")
    ELSE Result(<<request>>, TRUE, "", reply.status, reply.body)

\* the tail every client operation shares: httpClient.Do, the status check
\* and the decoding of the body
Do(request, reply) ==
    IF ~reply.received
    THEN Result(<<request>>, FALSE, "failed to send request", 0, "")
    ELSE IF reply.status # StatusOK
    THEN Result(<<request>>, FALSE, "status", reply.status, reply.body)
    ELSE IF ~reply.decodes
    THEN Result(<<request>>, FALSE, "failed to decode response", 0, "")
    ELSE Result(<<request>>, TRUE, "", reply.status, reply.body)

\* OnActivate
OnActivate(botOk, apiKey, registerOk) ==
    /\ ~plugin.activated
    /\ plugin' = Activation(botOk, apiKey, registerOk)
    /\ UNCHANGED <<kv, posts, pc, event, channelID, attachment, calls, resp, pre,
                 act, req, verification, secret, client>>

\* a caller runs one client operation to its end; client keeps the entry
\* point, the operation, the acting user's email, the slash command's
\* parameters, the request, the reply and the result
ClientCall(entry, op, email, params, request, reply) ==
    /\ Active
    /\ client = None
    /\ client' = Some([entry |-> entry, op |-> op, email |-> email,
                       params |-> params, request |-> request, reply |-> reply,
                       result |-> Do(request, reply)])
    /\ UNCHANGED <<kv, posts, pc, event, channelID, attachment, calls, resp, pre,
                 act, req, verification, secret, plugin>>

\* /pagerduty list [key=value ...]
ExecuteList(params, reply) ==
    ClientCall("/pagerduty list", "ListIncidents", "", params,
               ListIncidentsRequest(listIncidentsCommand(params)), reply)

\* /pagerduty get <identifier>
ExecuteGet(identifier, reply) ==
    ClientCall("/pagerduty get", getIncidentCommand(identifier).op, "", <<>>,
               getIncidentCommand(identifier).request, reply)

\* GET /api/v1/incidents?query
handleListIncidents(query, reply) ==
    ClientCall("GET /api/v1/incidents", "ListIncidents", "", <<>>,
               ListIncidentsRequest(query), reply)

\* GET /api/v1/incidents/{incident_id}
handleGetIncident(incidentID, reply) ==
    /\ incidentID # ""
    /\ ClientCall("GET /api/v1/incidents/{incident_id}", "GetIncident", "", <<>>,
                  GetIncidentRequest(incidentID), reply)

\* a remote call of HandleIncidentAction or performReassign
RemoteCall(call, reply) ==
    ClientCall("action", call.api, call.from, <<>>, RequestOf(call), reply)

\* the caller has returned
FinishCall ==
    /\ client # None
    /\ client' = None
    /\ UNCHANGED <<kv, posts, pc, event, channelID, attachment, calls, resp, pre,
                 act, req, verification, secret, plugin>>

----------------------------------------------------------------------------
(* Specifications *)

Quiet == act = None /\ \A w \in Workers : pc[w] = "idle"

\* the steps of the webhook handlers in flight
Step ==
    \/ \E w \in Workers, chOk, kvOk \in BOOLEAN : ProcessWebhookMessage(w, chOk, kvOk)
    \/ \E w \in Workers, ok \in BOOLEAN : CreatePost(w, ok)
    \/ \E w \in Workers, ok \in BOOLEAN : GetPost(w, ok)
    \/ \E w \in Workers, ok \in BOOLEAN : UpdatePost(w, ok)
    \/ \E w \in Workers, ok \in BOOLEAN : KVSet(w, ok)
    \/ \E w \in Workers : Finish(w)

\* Spec: webhook deliveries of every kind, handled one after the other, and
\* users deleting posts
Next ==
    \/ Quiet /\ \E r \in Requests : HandleWebhook("w1", r)
    \/ Step
    \/ \E p \in 1..MaxPosts : DeletePost(p)

Spec == Init /\ [][Next]_vars

\* SpecConc: webhook deliveries for one incident, handled concurrently
ConcRequests ==
    {r \in Requests :
        /\ r.method = "POST" /\ r.json /\ r.event.resource_type = "incident"
        /\ r.event.data.ID = "INC1"
        /\ \/ r.event.event_type = EventIncidentTriggered
              /\ r.event.data.Status = StatusTriggered
           \/ r.event.event_type = EventIncidentAcknowledged
              /\ r.event.data.Status = StatusAcknowledged}

NextConc ==
    \/ \E w \in Workers, r \in ConcRequests : HandleWebhook(w, r)
    \/ Step

SpecConc == Init /\ [][NextConc]_vars

\* SpecRace: after deliveries that trigger INC1, deliveries that acknowledge
\* and resolve it, handled concurrently
RaceRequests ==
    {r \in Requests :
        /\ r.method = "POST" /\ r.json /\ r.event.resource_type = "incident"
        /\ r.event.data.ID = "INC1"
        /\ \/ r.event.event_type = EventIncidentAcknowledged
              /\ r.event.data.Status = StatusAcknowledged
           \/ r.event.event_type = EventIncidentResolved
              /\ r.event.data.Status = StatusResolved}

NextRace ==
    \/ /\ Quiet
       /\ \E r \in ConcRequests :
             r.event.event_type = EventIncidentTriggered /\ HandleWebhook("w1", r)
    \/ \E w \in Workers, r \in RaceRequests : HandleWebhook(w, r)
    \/ Step

SpecRace == Init /\ [][NextRace]_vars

\* SpecAct: action requests, between webhook deliveries that trigger and
\* acknowledge incident INC1
ActWebhooks ==
    {r \in Requests :
        /\ r.method = "POST" /\ r.json /\ r.event.resource_type = "incident"
        /\ r.event.data.ID = "INC1"
        /\ \/ r.event.event_type = EventIncidentTriggered
              /\ r.event.data.Status = StatusTriggered
           \/ r.event.event_type = EventIncidentAcknowledged
              /\ r.event.data.Status = StatusAcknowledged}

ActionRequest ==
    /\ Quiet
    /\ \E r \in ActionRequests, userOk, remoteOk \in BOOLEAN, email \in Emails,
          users \in UserLists :
           \E returned \in Returned(r) :
               HandleIncidentAction(r, userOk, email, remoteOk, users, returned)

NextAct ==
    \/ Quiet /\ \E r \in ActWebhooks : HandleWebhook("w1", r)
    \/ Step
    \/ ActionRequest
    \/ FinishAction

SpecAct == Init /\ [][NextAct]_vars

\* SpecVerify: under every secret, deliveries of every header with every
\* body; the event is about a service, so that the handler returns at once
VerifyRequests ==
    {Request("POST", TRUE, TRUE, e, <<>>, b, h) :
        e \in {e \in V3Events : /\ e.resource_type = "service"
                                /\ e.event_type = EventIncidentTriggered},
        b \in Bodies, h \in Headers}

InitVerify == \E key \in Secrets : Start(key)

NextVerify ==
    \/ Quiet /\ \E r \in VerifyRequests : HandleWebhook("w1", r)
    \/ Finish("w1")

SpecVerify == InitVerify /\ [][NextVerify]_vars

\* SpecSigned: with and without a secret configured, deliveries that trigger
\* and acknowledge incident INC1 and carry no signature, the signature of
\* their body (with and without prefix), or the signature of another body
SignedSecret == <<0, 1>>
SignedBody == <<1>>

SignedRequests ==
    {Request("POST", TRUE, TRUE, r.event, <<>>, SignedBody, h) :
        r \in ActWebhooks,
        h \in {<<>>, Sign(SignedBody, SignedSecret),
               V1Prefix \o Sign(SignedBody, SignedSecret),
               V1Prefix \o Sign(<<0>>, SignedSecret)}}

InitSigned == \E key \in {<<>>, SignedSecret} : Start(key)

NextSigned ==
    \/ Quiet /\ \E r \in SignedRequests : HandleWebhook("w1", r)
    \/ Step

SpecSigned == InitSigned /\ [][NextSigned]_vars

\* SpecRender: deliveries about incident INC1 in every status and with every
\* urgency, as Triggered events (which create or update its message) and as
\* StatusUpdated events
Urgencies == {"high", "low"}

RenderRequests ==
    {Request("POST", TRUE, TRUE,
             [event_type |-> t, resource_type |-> "incident",
              data |-> Incident("INC1", s, u)], <<>>, <<>>, <<>>) :
        t \in {EventIncidentTriggered, EventIncidentStatusUpdated},
        s \in Statuses, u \in Urgencies}

NextRender ==
    \/ Quiet /\ \E r \in RenderRequests : HandleWebhook("w1", r)
    \/ Step

SpecRender == Init /\ [][NextRender]_vars

\* SpecLife: the life of incident INC1: deliveries that trigger, acknowledge
\* and resolve it, and action requests between them
ResolvedWebhooks ==
    {r \in Requests :
        /\ r.method = "POST" /\ r.json /\ r.event.resource_type = "incident"
        /\ r.event.data.ID = "INC1"
        /\ r.event.event_type = EventIncidentResolved
        /\ r.event.data.Status = StatusResolved}

NextLife ==
    \/ Quiet /\ \E r \in ActWebhooks \cup ResolvedWebhooks : HandleWebhook("w1", r)
    \/ Step
    \/ ActionRequest
    \/ FinishAction

SpecLife == Init /\ [][NextLife]_vars

\* SpecClient: activation with every configuration, then the callers of the
\* PagerDuty client, one operation at a time, against every reply
ParamValues ==
    {<<>>, <<"0">>, <<"5">>, <<"2", "5">>, <<"2", "6">>, <<"-", "1">>,
     <<"0", "0", "7">>, <<"1", "0", "0", "0">>, <<"a", "l", "l">>}

\* the key=value parameters of /pagerduty list: at most two of them
Params ==
    LET ps == [key : {"limit"}, value : ParamValues]
              \cup [key : {"status", "page"}, value : {<<"5">>}]
    IN {<<>>} \cup {<<p1>> : p1 \in ps} \cup {<<p1, p2>> : p1 \in ps, p2 \in ps}

Identifiers == {<<"4", "2">>, <<"0", "0", "7">>, <<"P", "I", "N", "C", "1">>}

\* the query strings of GET /api/v1/incidents
Queries ==
    [limit : {None} \cup {Some(v) : v \in ParamValues},
     statuses : {None, Some(<<"5">>)}, incident_number : {None}]

\* the calls HandleIncidentAction and performReassign make
RemoteCalls ==
    {UpdateIncident(id, st, e, n) : id \in {"INC1"},
        st \in {StatusAcknowledged, StatusResolved}, e \in Emails,
        n \in {"", "on it"}}
    \cup {AssignIncident("INC1", <<"PDUSER1">>, e) : e \in Emails}
    \cup {ListUsers}

InitClient ==
    /\ kv = [k \in Keys |-> None]
    /\ posts = <<>>
    /\ pc = [w \in Workers |-> "idle"]
    /\ event = [w \in Workers |-> None]
    /\ channelID = [w \in Workers |-> ""]
    /\ attachment = [w \in Workers |-> None]
    /\ calls = [w \in Workers |-> <<>>]
    /\ resp = [w \in Workers |-> 0]
    /\ pre = [w \in Workers |-> NoPre]
    /\ act = None
    /\ req = [w \in Workers |-> None]
    /\ verification = [w \in Workers |-> None]
    /\ secret = <<>>
    /\ plugin = Loaded
    /\ client = None

NextClient ==
    \/ \E botOk, registerOk \in BOOLEAN, apiKey \in APIKeys :
           OnActivate(botOk, apiKey, registerOk)
    \/ client = None /\ \E params \in Params, reply \in Replies : ExecuteList(params, reply)
    \/ client = None /\ \E id \in Identifiers, reply \in Replies : ExecuteGet(id, reply)
    \/ client = None /\ \E query \in Queries, reply \in Replies :
           handleListIncidents(query, reply)
    \/ client = None /\ \E id \in IncidentIDs, reply \in Replies :
           handleGetIncident(id, reply)
    \/ client = None /\ \E call \in RemoteCalls, reply \in Replies :
           RemoteCall(call, reply)
    \/ FinishCall

SpecClient == InitClient /\ [][NextClient]_vars

\* SpecRoute: requests to the /api/v1 routes, with and without the
\* Mattermost-User-ID header, between webhook deliveries; a webhook request
\* carries no Mattermost-User-ID header
\* the JSON bodies of action requests: the fields other than assignee_id
\* (all empty when the request has no body that decodes)
ActionBodies ==
    [incident_id : {"INC1", "INC2"}, action : {ActionAcknowledge, ActionResolve},
     user_id : {"mmuser1", "mmuser2"}]
    \cup {[incident_id |-> "", action |-> "", user_id |-> ""]}

APIRequests ==
    {r \in [method : {"GET", "POST"},
            path : ActionPaths \cup {PathHello, PathIncidents},
            userID : {"", "mmuser1"}, json : BOOLEAN, incidentID : {"INC1"},
            assignee_id : {"", "PDUSER1"}, body : ActionBodies] :
        /\ r.method = "POST" <=> r.path \in ActionPaths
        /\ r.path # PathReassign => r.assignee_id = ""
        /\ (r.path \in ActionPaths /\ r.json) <=> r.body.incident_id # ""
        /\ r.path \notin ActionPaths => r.json
        /\ ~r.json => r.assignee_id = ""}

NextRoute ==
    \/ /\ Quiet
       /\ \E r \in APIRequests, userOk, remoteOk \in BOOLEAN, email \in Emails :
              ServeHTTP(r, userOk, email, remoteOk,
                        <<[ID |-> "PDUSER1", Name |-> "Ann"]>>,
                        Incident(r.incidentID, StatusAcknowledged, "high"))
    \/ FinishAction
    \/ Quiet /\ \E r \in ActWebhooks : HandleWebhook("w1", r)
    \/ Step

SpecRoute == Init /\ [][NextRoute]_vars

----------------------------------------------------------------------------
(* Properties *)

\* handler w has written its response
Done(w) == pc[w] = "done"

\* handler w processed an event of one of the five recognized kinds
Recognized(w) ==
    IsSome(event[w]) /\ IsSome(processV3WebhookEvent(Get(event[w])))

\* the calls handler w made, by API
CallsTo(w, api) == {i \in DOMAIN calls[w] : calls[w][i].api = api}
Succeeded(w, api) == \E i \in CallsTo(w, api) : calls[w][i].ok

\* every collaborator call of handler w succeeded
AllOk(w) == \A i \in DOMAIN calls[w] : calls[w][i].ok

\* no call failed other than the read of the record and the look-up of the
\* message (the two failures the correlator heals by creating a message)
OthersOk(w) ==
    \A i \in DOMAIN calls[w] :
        calls[w][i].api \notin {"KVGet", "GetPost"} => calls[w][i].ok

\* the record and the message handleTriggeredIncident leaves for incident inc
\* in channel ch, the message being the newest post
CreatedFor(inc, ch) ==
    /\ Len(posts) >= 1
    /\ Record(kv, inc.ID) = Some(PostAttachment(inc.ID, Len(posts), ch, inc))
    /\ posts[Len(posts)].ChannelId = ch
    /\ posts[Len(posts)].Props = createIncidentProps(inc)

\* C1 (Spec): a Triggered event for X delivered again, i.e. when the record
\* and message of a successful delivery of the same incident are in place and
\* every collaborator succeeds, creates no message: it updates the existing
\* message and leaves the one record for X pointing at that message.
C1_IdempotentTrigger ==
    \A w \in Workers :
        (/\ Done(w) /\ Recognized(w) /\ AllOk(w)
         /\ Message(w).Event = EventIncidentTriggered
         /\ IsSome(pre[w].rec) /\ pre[w].alive
         /\ Get(pre[w].rec).Incident = Message(w).Incident)
        => /\ CallsTo(w, "CreatePost") = {}
           /\ Succeeded(w, "UpdatePost")
           /\ Record(kv, Message(w).Incident.ID) = pre[w].rec

\* C2 (Spec): an event of a recognized kind for an incident whose record
\* names a deleted message never updates a message; the delivery succeeds
\* exactly when channel look-up, CreatePost and KVSet succeed, and then the
\* record holds the identifier of a newly created message, different from the
\* old one, and the event's incident, which the new message renders.
C2_DeletedMessageSelfHeal ==
    \A w \in Workers :
        (Done(w) /\ Recognized(w) /\ IsSome(pre[w].rec) /\ ~pre[w].alive)
        => /\ CallsTo(w, "UpdatePost") = {}
           /\ resp[w] = StatusOK <=> OthersOk(w)
           /\ resp[w] = StatusOK =>
                /\ Succeeded(w, "CreatePost")
                /\ Len(posts) # Get(pre[w].rec).PostID
                /\ CreatedFor(Message(w).Incident, Get(pre[w].rec).ChannelID)

C2_Witness ==
    \E w \in Workers :
        /\ Done(w) /\ Recognized(w) /\ IsSome(pre[w].rec) /\ ~pre[w].alive
        /\ Message(w).Event \in UpdateEvents
        /\ CallsTo(w, "GetPost") # {} /\ ~Succeeded(w, "GetPost")
        /\ resp[w] = StatusOK
        /\ Get(Record(kv, Message(w).Incident.ID)).PostID > Get(pre[w].rec).PostID
        /\ Get(Record(kv, Message(w).Incident.ID)).Incident # Get(pre[w].rec).Incident

\* C3 (Spec): an Acknowledged, Resolved, Reassigned or StatusUpdated event
\* for an incident without a record takes the path of a Triggered event: it
\* looks up and updates no message, succeeds exactly when channel look-up,
\* CreatePost and KVSet succeed, and then leaves a new message rendering the
\* event's incident and a new record with that message, the resolved channel
\* and the event's incident.
C3_OutOfOrderHealing ==
    \A w \in Workers :
        (/\ Done(w) /\ Recognized(w) /\ Message(w).Event \in UpdateEvents
         /\ pre[w].rec = None)
        => /\ CallsTo(w, "GetPost") = {} /\ CallsTo(w, "UpdatePost") = {}
           /\ resp[w] = StatusOK <=> OthersOk(w)
           /\ resp[w] = StatusOK =>
                /\ Succeeded(w, "CreatePost") /\ Succeeded(w, "KVSet")
                /\ CreatedFor(Message(w).Incident, DefaultChannelID)

C3_Witness ==
    \E w \in Workers :
        /\ Done(w) /\ Recognized(w) /\ pre[w].rec = None
        /\ Message(w).Event = EventIncidentAcknowledged
        /\ Message(w).Incident.Status = StatusAcknowledged
        /\ resp[w] = StatusOK
        /\ Get(Record(kv, Message(w).Incident.ID)).Incident.Status = StatusAcknowledged
        /\ posts[Len(posts)].Props.Color = "#FFFF00"

\* the action request handled reached the switch on the action kind: it
\* carried a user, its body decoded and the user look-up succeeded
Dispatched ==
    /\ act # None
    /\ Get(act).req.userID # "" /\ Get(act).req.json /\ Get(act).env.userOk

\* C4 (SpecAct): when an acknowledge, resolve or reassign action has been
\* answered with success, the record of the incident holds the incident the
\* remote mutation returned and its message renders that incident.
C4_ActionRefreshesRecord ==
    (/\ act # None
     /\ Get(act).out.status = StatusOK /\ IsSome(Get(act).out.returned)
     /\ IsSome(Record(kv, Get(act).req.incidentID)))
    => LET rec == Get(Record(kv, Get(act).req.incidentID))
       IN /\ rec.Incident = Get(Get(act).out.returned)
          /\ PostExists(posts, rec.PostID) =>
                posts[rec.PostID].Props =
                    createIncidentProps(Get(Get(act).out.returned))

\* C5 (SpecConc): the write of a record is blind: a successful KVSet step of
\* a handler replaces whatever record the incident has by the handler's own
\* attachment, also when another handler wrote the record after this handler
\* read it.
C5_BlindRecordWrite ==
    [][\A w \in Workers :
          (pc[w] = "KVSet" /\ pc'[w] = "done" /\ resp'[w] = StatusOK)
          => Record(kv', Message(w).Incident.ID) = attachment[w]]_vars

\* the lost update: two handlers of Acknowledged events for one incident both
\* read no record, both created a message, and the record names one of them
C5_Witness ==
    /\ \A w \in Workers :
          /\ Done(w) /\ Recognized(w) /\ resp[w] = StatusOK
          /\ Message(w).Event = EventIncidentAcknowledged
          /\ Message(w).Incident.ID = "INC1"
          /\ calls[w] = <<Call("GetChannel", TRUE), Call("KVGet", TRUE),
                          Call("CreatePost", TRUE), Call("KVSet", TRUE)>>
    /\ Len(posts) = 2
    /\ \A p \in 1..2 : posts[p].Props.IncidentID = "INC1" /\ posts[p].DeleteAt = 0
    /\ Get(Record(kv, "INC1")).PostID \in 1..2
    /\ Record(kv, "INC2") = None

\* C6 (Spec): an event of a recognized kind for an incident whose record
\* names an existing message, every collaborator succeeding, leaves the record
\* with the same message and channel and with the event's incident.
C6_RecordKeepsMessage ==
    \A w \in Workers :
        (/\ Done(w) /\ Recognized(w) /\ AllOk(w)
         /\ IsSome(pre[w].rec) /\ pre[w].alive)
        => Record(kv, Message(w).Incident.ID) =
              Some([Get(pre[w].rec) EXCEPT !.Incident = Message(w).Incident])

\* C7 (SpecAct): an action request whose kind is not acknowledge, resolve or
\* reassign issues no remote call and is answered with an error; when it
\* reaches the switch the answer is 400 "Invalid action".
C7_InvalidAction ==
    (/\ act # None
     /\ Get(act).req.action \notin {ActionAcknowledge, ActionResolve, ActionReassign})
    => /\ Get(act).out.remote = <<>>
       /\ Get(act).out.status \in {StatusBadRequest, StatusUnauthorized,
                                   StatusInternalServerError}
       /\ Dispatched => /\ Get(act).out.status = StatusBadRequest
                        /\ Get(act).out.text = "Invalid action"

C7_Witness ==
    /\ Dispatched
    /\ Get(act).req.action = "launch_missiles"
    /\ Get(act).out.status = StatusBadRequest
    /\ Get(act).out.text = "Invalid action"
    /\ Get(act).env.remoteOk

\* C8 (SpecAct): a reassign request with assignee "fetch_users" that reaches
\* the switch issues the single remote call listUsers, returns no mutated
\* incident, and when listUsers succeeds answers 200 with one option per user
\* returned, in order.
C8_FetchUsers ==
    (/\ Dispatched
     /\ Get(act).req.action = ActionReassign
     /\ Get(act).req.assignee_id = "fetch_users")
    => LET out == Get(act).out
           users == Get(act).env.users
       IN /\ Len(out.remote) = 1
          /\ out.remote[1].api = "listUsers"
          /\ out.returned = None
          /\ Get(act).env.remoteOk =>
                /\ out.status = StatusOK
                /\ Len(out.options) = Len(users)
                /\ \A i \in 1..Len(users) :
                      /\ out.options[i].Value = users[i].ID
                      /\ out.options[i].Text = users[i].Name

C8_Witness ==
    /\ Dispatched
    /\ Get(act).req.action = ActionReassign
    /\ Get(act).req.assignee_id = "fetch_users"
    /\ Get(act).env.remoteOk
    /\ Len(Get(act).env.users) = 2
    /\ Len(Get(act).out.options) = 2
    /\ Get(act).out.status = StatusOK

\* C9 (SpecAct): an acknowledge request that reaches the switch issues the
\* single remote call update(id, "acknowledged", e, ""), a resolve request
\* the single remote call update(id, "resolved", e, ""), e being the acting
\* user's email.
C9_UpdateCall ==
    (Dispatched /\ Get(act).req.action \in {ActionAcknowledge, ActionResolve})
    => Get(act).out.remote =
          <<[api |-> "update", id |-> Get(act).req.incidentID,
             status |-> IF Get(act).req.action = ActionAcknowledge
                        THEN "acknowledged" ELSE "resolved",
             assignees |-> <<>>, from |-> Get(act).env.email, note |-> ""]>>

C9_Witness ==
    /\ Dispatched
    /\ Get(act).req.action = ActionAcknowledge
    /\ Get(act).req.incidentID = "INC1"
    /\ Get(act).env.email = "a@example.com"
    /\ Get(act).out.status = StatusOK
    /\ Get(act).out.remote[1].status = "acknowledged"
    /\ Get(act).out.remote[1].from = "a@example.com"

\* C10 (SpecAct): a reassign request with a concrete assignee a that reaches
\* the switch issues the single remote call assign(id, <<a>>, e).
C10_AssignCall ==
    (/\ Dispatched
     /\ Get(act).req.action = ActionReassign
     /\ Get(act).req.assignee_id \notin {"", "fetch_users"})
    => Get(act).out.remote =
          <<[api |-> "assign", id |-> Get(act).req.incidentID, status |-> "",
             assignees |-> <<Get(act).req.assignee_id>>,
             from |-> Get(act).env.email, note |-> ""]>>

C10_Witness ==
    /\ Dispatched
    /\ Get(act).req.action = ActionReassign
    /\ Get(act).req.assignee_id = "PDUSER1"
    /\ Get(act).out.status = StatusOK
    /\ Get(act).out.remote[1].assignees = <<"PDUSER1">>
    /\ IsSome(Get(act).out.returned)

\* handler w takes a request in this step, and the request it takes
Arrives(w) == pc[w] = "idle" /\ pc'[w] # "idle"
Taken(w) == Get(req'[w])

\* the delivery taken by handler w ends within the step, with success and
\* without a call into the plugin API, a message or a record changed
DroppedAtOnce(w) ==
    /\ pc'[w] = "done" /\ resp'[w] = StatusOK
    /\ calls'[w] = <<>> /\ kv' = kv /\ posts' = posts

\* the documented kind of each recognized event_type string
CanonicalKind ==
    [t \in RecognizedEvents |->
        CASE t = "incident.triggered" -> EventIncidentTriggered
          [] t = "incident.acknowledged" -> EventIncidentAcknowledged
          [] t = "incident.resolved" -> EventIncidentResolved
          [] t = "incident.reassigned" -> EventIncidentReassigned
          [] t = "incident.status_update_published" -> EventIncidentStatusUpdated]

\* C11 (Spec): a POST of a V3 payload whose event has resource_type
\* "incident": when its event_type is one of the five recognized strings the
\* handler goes on to processWebhookMessage with a message of that string's
\* kind and the event's incident; with any other event_type the delivery ends
\* at once with 200, no plugin API call made, no record and no message changed.
C11_NormalizationTable ==
    [][\A w \in Workers :
          (/\ Arrives(w)
           /\ Taken(w).method = "POST" /\ Unmarshals(Taken(w))
           /\ Taken(w).event.resource_type = "incident")
          => IF Taken(w).event.event_type \in RecognizedEvents
             THEN /\ pc'[w] = "processWebhookMessage"
                  /\ Message(w)' =
                        [Event |-> CanonicalKind[Taken(w).event.event_type],
                         Incident |-> Taken(w).event.data]
             ELSE DroppedAtOnce(w)]_vars

C11_Witness ==
    \E w \in Workers :
        /\ Done(w) /\ Recognized(w)
        /\ Get(req[w]).event.event_type = "incident.status_update_published"
        /\ Message(w).Event = EventIncidentStatusUpdated
        /\ Succeeded(w, "UpdatePost")
        /\ resp[w] = StatusOK

\* C12 (Spec): a POST of a V3 payload whose event has a resource_type other
\* than "incident" ends at once with 200 whatever its event_type: no plugin
\* API call is made, so no record is read, and no record or message changes.
C12_NonIncidentResource ==
    [][\A w \in Workers :
          (/\ Arrives(w)
           /\ Taken(w).method = "POST" /\ Unmarshals(Taken(w))
           /\ Taken(w).event.resource_type # "incident")
          => DroppedAtOnce(w)]_vars

C12_Witness ==
    \E w \in Workers :
        /\ Done(w)
        /\ Get(req[w]).event.resource_type = "service"
        /\ Get(req[w]).event.event_type = EventIncidentAcknowledged
        /\ Get(req[w]).event.data.ID = "INC1"
        /\ IsSome(Record(kv, "INC1"))
        /\ Get(Record(kv, "INC1")).Incident.Status = StatusTriggered
        /\ resp[w] = StatusOK /\ calls[w] = <<>>

\* the positions of the messages of a list that carry a recognized event name
RecognizedMessages(ms) == {i \in DOMAIN ms : ms[i].Event \in RecognizedEvents}

\* C13 (Spec): a POST whose body is a WebhookPayload with a list of messages
\* is correlated once per message with a recognized event name, and when the
\* delivery succeeds the record of the incident holds the incident of the
\* last such message.
C13_LegacyBatch ==
    \A w \in Workers :
        (/\ Done(w)
         /\ Get(req[w]).method = "POST" /\ Unmarshals(Get(req[w]))
         /\ Get(req[w]).messages # <<>>)
        => LET ms == Get(req[w]).messages
               last == CHOOSE i \in RecognizedMessages(ms) :
                          \A j \in RecognizedMessages(ms) : j <= i
           IN /\ Cardinality(CallsTo(w, "GetChannel")) =
                    Cardinality(RecognizedMessages(ms))
              /\ (resp[w] = StatusOK /\ RecognizedMessages(ms) # {})
                 => /\ IsSome(Record(kv, ms[last].Incident.ID))
                    /\ Get(Record(kv, ms[last].Incident.ID)).Incident =
                          ms[last].Incident

\* the step in which handler w writes its response writes 405 to a request
\* that is not a POST, else 400 when malformed, else 500 when a call other
\* than the read of the record and the look-up of the message failed, else
\* 200; the step that writes 405 or 400 is the handler's first, and it makes
\* no plugin API call and changes no record and no message
Answers(w, malformed) ==
    (pc[w] # "done" /\ pc'[w] = "done")
    => /\ resp'[w] =
             IF Taken(w).method # "POST" THEN StatusMethodNotAllowed
             ELSE IF malformed THEN StatusBadRequest
             ELSE IF ~OthersOk(w)' THEN StatusInternalServerError
             ELSE StatusOK
       /\ resp'[w] \in {StatusMethodNotAllowed, StatusBadRequest}
          => /\ pc[w] = "idle"
             /\ calls'[w] = <<>> /\ kv' = kv /\ posts' = posts

\* C14 as stated (Spec): every request is answered 405 when it is not a POST,
\* else 400 when its body is not valid JSON, else 500 when processing failed,
\* else 200; a request answered 405 or 400 changes no record and no message.
C14_AsStated ==
    [][\A w \in Workers : Answers(w, ~Taken(w).json)]_vars

\* C14 (Spec): every request is answered 405 when it is not a POST, else 400
\* when its body does not unmarshal into a V3WebhookPayload (it is not valid
\* JSON, or it is JSON of another shape such as an array), else 500 when
\* processing failed, else 200; a request answered 405 or 400 changes no
\* record and no message.
C14_WebhookStatus ==
    [][\A w \in Workers : Answers(w, ~Unmarshals(Taken(w)))]_vars

C14_Witness ==
    \E w \in Workers :
        /\ Done(w)
        /\ Get(req[w]).method = "POST"
        /\ Get(req[w]).json /\ ~Get(req[w]).fits
        /\ resp[w] = StatusBadRequest
        /\ calls[w] = <<>>
        /\ Len(posts) = 1 /\ IsSome(Record(kv, "INC1"))

\* C15 (SpecVerify): a header that is the signature of body b under secret
\* k, with or without the "v1=" prefix, verifies against the request's body
\* under the configured secret exactly when b is the request's body and k the
\* configured secret.
C15_SignatureRoundTrip ==
    \A w \in Workers :
        (Done(w) /\ IsSome(verification[w]))
        => \A b \in Bodies, k \in Secrets, prefix \in {<<>>, V1Prefix} :
              Get(req[w]).signature = prefix \o Sign(b, k)
              => (Get(verification[w]).err = ""
                  <=> (b = Get(req[w]).body /\ k = secret))

C15_Witness ==
    \E w \in Workers :
        /\ Done(w) /\ IsSome(verification[w])
        /\ Len(Get(req[w]).body) = MaxBytes
        /\ Get(req[w]).signature = V1Prefix \o Sign(Get(req[w]).body, secret)
        /\ Get(verification[w]) = Verified("", TRUE)

\* C16 (SpecVerify): without a signature header the verifier returns the
\* error "no signature provided ..." and has not read the body; with a header
\* it reads the body and returns nil or the different error "invalid
\* signature".
C16_MissingSignature ==
    \A w \in Workers :
        (Done(w) /\ IsSome(verification[w]))
        => IF Get(req[w]).signature = <<>>
           THEN Get(verification[w]) = Verified(ErrNoSignature, FALSE)
           ELSE /\ Get(verification[w]).bodyRead
                /\ Get(verification[w]).err \in {"", ErrInvalidSignature}
                /\ ErrInvalidSignature # ErrNoSignature

C16_Witness ==
    \E w \in Workers :
        /\ Done(w)
        /\ Get(req[w]).signature = <<>>
        /\ Get(req[w]).body # <<>>
        /\ verification[w] = Some(Verified(ErrNoSignature, FALSE))

\* C17 (SpecSigned): the step in which a handler takes a request is the step
\* HandleWebhook without its signature block takes for the same request with
\* the valid signature of its body: same response or next call, same event,
\* no record and no message changed; and the signature is verified exactly
\* when a secret is configured.
C17_AdvisorySignature ==
    [][\A w \in Workers :
          Arrives(w)
          => /\ Deliver(w, [Taken(w) EXCEPT
                               !.signature = V1Prefix \o Sign(Taken(w).body, secret)])
             /\ kv' = kv /\ posts' = posts /\ calls' = calls
             /\ channelID' = channelID /\ attachment' = attachment
             /\ IsSome(verification'[w]) <=> secret # <<>>]_vars

C17_Witness ==
    \E w \in Workers :
        /\ Done(w) /\ Recognized(w)
        /\ secret # <<>>
        /\ verification[w] = Some(Verified(ErrInvalidSignature, TRUE))
        /\ resp[w] = StatusOK
        /\ Succeeded(w, "CreatePost")
        /\ CreatedFor(Message(w).Incident, DefaultChannelID)

\* C18 (Spec): when the read of the record fails, the event of a recognized
\* kind takes the create path: no message is looked up or updated, the
\* delivery succeeds exactly when channel look-up, CreatePost and KVSet
\* succeed, and it then leaves a new message and a record naming it.
C18_FailedReadCreates ==
    \A w \in Workers :
        (/\ Done(w) /\ Recognized(w)
         /\ CallsTo(w, "KVGet") # {} /\ ~Succeeded(w, "KVGet"))
        => /\ CallsTo(w, "GetPost") = {} /\ CallsTo(w, "UpdatePost") = {}
           /\ resp[w] = StatusOK <=> OthersOk(w)
           /\ resp[w] = StatusOK =>
                /\ Succeeded(w, "CreatePost") /\ Succeeded(w, "KVSet")
                /\ CreatedFor(Message(w).Incident, DefaultChannelID)

C18_Witness ==
    \E w \in Workers :
        /\ Done(w) /\ Recognized(w)
        /\ Message(w).Event = EventIncidentAcknowledged
        /\ IsSome(pre[w].rec) /\ pre[w].alive
        /\ ~Succeeded(w, "KVGet")
        /\ resp[w] = StatusOK
        /\ Get(Record(kv, Message(w).Incident.ID)).PostID # Get(pre[w].rec).PostID
        /\ Len(posts) = MaxPosts

\* C19 (Spec): a delivery whose write of the record failed, after CreatePost
\* or after UpdatePost, is answered with 500.
C19_FailedWriteSurfaced ==
    \A w \in Workers :
        (Done(w) /\ CallsTo(w, "KVSet") # {} /\ ~Succeeded(w, "KVSet"))
        => resp[w] = StatusInternalServerError

C19_Witness ==
    \E w \in Workers :
        /\ Done(w)
        /\ Succeeded(w, "UpdatePost")
        /\ CallsTo(w, "KVSet") # {} /\ ~Succeeded(w, "KVSet")
        /\ resp[w] = StatusInternalServerError
        /\ Get(Record(kv, Message(w).Incident.ID)).Incident # Message(w).Incident

\* the action with identifier id is among the actions of post p
Offers(p, id) == \E i \in DOMAIN posts[p].Props.Actions : posts[p].Props.Actions[i] = id

\* C20 (Spec): the message a handler created or updated offers acknowledge
\* exactly when the event's incident is triggered, resolve exactly when it is
\* not resolved, and reassign always.
C20_ActionSet ==
    \A w \in Workers :
        (Recognized(w) /\ (Succeeded(w, "CreatePost") \/ Succeeded(w, "UpdatePost")))
        => LET p == Get(attachment[w]).PostID
               status == Message(w).Incident.Status
           IN /\ Offers(p, ActionAcknowledge) <=> status = StatusTriggered
              /\ Offers(p, ActionResolve) <=> status # StatusResolved
              /\ Offers(p, ActionReassign)

C20_Witness ==
    \E w \in Workers :
        /\ Done(w) /\ Recognized(w) /\ Succeeded(w, "UpdatePost")
        /\ Message(w).Incident.Status = StatusAcknowledged
        /\ posts[Get(attachment[w]).PostID].Props.Actions =
              <<ActionResolve, ActionReassign>>

\* the colours of the message attachment
Red == "#FF0000"
Orange == "#FFA500"
Yellow == "#FFFF00"
Green == "#008000"

\* C21 (SpecRender): the message a handler created or updated is red when the
\* event's incident is triggered with urgency high, orange when it is
\* triggered with any other urgency, yellow when it is acknowledged and green
\* when it is resolved.
C21_Color ==
    \A w \in Workers :
        (Recognized(w) /\ (Succeeded(w, "CreatePost") \/ Succeeded(w, "UpdatePost")))
        => LET color == posts[Get(attachment[w]).PostID].Props.Color
               incident == Message(w).Incident
           IN /\ (incident.Status = StatusTriggered /\ incident.Urgency = "high")
                    => color = Red
              /\ (incident.Status = StatusTriggered /\ incident.Urgency # "high")
                    => color = Orange
              /\ incident.Status = StatusAcknowledged => color = Yellow
              /\ incident.Status = StatusResolved => color = Green

\* a red message is updated to orange by an event that lowers the urgency of
\* the triggered incident
C21_Witness ==
    \E w \in Workers :
        /\ Done(w) /\ Recognized(w) /\ Succeeded(w, "UpdatePost")
        /\ IsSome(pre[w].rec)
        /\ Get(pre[w].rec).Incident = Incident("INC1", StatusTriggered, "high")
        /\ Message(w).Incident = Incident("INC1", StatusTriggered, "low")
        /\ posts[Get(attachment[w]).PostID].Props.Color = Orange

\* the keys of the store that hold a record
StoredKeys == {k \in Keys : IsSome(kv[k])}

\* handler w handled the V3 event incident.triggered for the triggered
\* incident INC1, every call succeeding, and the store was empty on arrival
FirstDelivery(w) ==
    /\ Done(w) /\ Recognized(w) /\ AllOk(w)
    /\ Get(event[w]).event_type = EventIncidentTriggered
    /\ Message(w).Incident.ID = "INC1"
    /\ pre[w].rec = None
    /\ Record(kv, "INC2") = None

\* C22 (Spec): from an empty store, one successful delivery of
\* incident.triggered for INC1 makes exactly one CreatePost call and leaves
\* exactly one record, under the key of INC1; the record holds the identifier
\* of the created message, the resolved channel and the delivered incident.
C22_FirstDelivery ==
    \A w \in Workers :
        FirstDelivery(w)
        => /\ resp[w] = StatusOK
           /\ Cardinality(CallsTo(w, "CreatePost")) = 1
           /\ CallsTo(w, "UpdatePost") = {}
           /\ StoredKeys = {Key("INC1")}
           /\ LET rec == Get(Record(kv, "INC1"))
              IN /\ rec.ID = "INC1"
                 /\ rec.PostID = Len(posts)
                 /\ rec.PostID \in DOMAIN posts
                 /\ posts[rec.PostID].Props.IncidentID = "INC1"
                 /\ rec.ChannelID = channelID[w]
                 /\ posts[rec.PostID].ChannelId = channelID[w]
                 /\ rec.Incident = Get(event[w]).data

C22_Witness ==
    \E w \in Workers :
        /\ FirstDelivery(w)
        /\ Len(posts) = 1
        /\ StoredKeys = {Key("INC1")}
        /\ Get(Record(kv, "INC1")).PostID = 1
        /\ Get(Record(kv, "INC1")).ChannelID = DefaultChannelID
        /\ Get(Record(kv, "INC1")).Incident = Incident("INC1", StatusTriggered, "high")

\* C23 (SpecLife): records are never deleted: an incident that has a record
\* has one after every step, whichever webhook event (Resolved included) or
\* action is handled.
C23_RecordsPersist ==
    [][\A id \in IncidentIDs :
          IsSome(Record(kv, id)) => IsSome(Record(kv', id))]_vars

\* the record of the resolved incident is still there while a later resolve
\* action on it is answered
C23_Witness ==
    /\ IsSome(Record(kv, "INC1"))
    /\ Get(Record(kv, "INC1")).Incident.Status = StatusResolved
    /\ act # None
    /\ Get(act).req.incidentID = "INC1"
    /\ Get(act).req.action = ActionResolve
    /\ Get(act).out.status = StatusOK

\* C27 (SpecAct): the user is looked up before any remote call: an action
\* request that issued a remote call had its user resolved, and one whose user
\* look-up failed is answered with an HTTP error having issued no remote call.
C27_IdentityFirst ==
    act # None =>
        /\ Get(act).out.remote # <<>> => Get(act).env.userOk
        /\ (Get(act).req.userID # "" /\ Get(act).req.json /\ ~Get(act).env.userOk)
           => /\ Get(act).out.remote = <<>>
              /\ Get(act).out.status >= StatusBadRequest
              /\ Get(act).out.returned = None

C27_Witness ==
    /\ act # None
    /\ Get(act).req.userID # "" /\ Get(act).req.json /\ ~Get(act).env.userOk
    /\ Get(act).req.action = ActionAcknowledge
    /\ Get(act).env.remoteOk
    /\ Get(act).out.remote = <<>>
    /\ Get(act).out.status = StatusInternalServerError

\* the remote call of the handled action request failed
RemoteFailed(a) == a.out.remote # <<>> /\ ~a.env.remoteOk

\* C28 (SpecAct): an action request whose remote update, assignment or user
\* listing fails is answered with 500 and not with the success or update body,
\* and handling it changes no record and no message.
C28_FailureSurfaced ==
    [][(act = None /\ act' # None /\ RemoteFailed(Get(act')))
       => /\ Get(act').out.status = StatusInternalServerError
          /\ Get(act').out.text \notin {"success", "update"}
          /\ Get(act').out.options = <<>>
          /\ Get(act').out.returned = None
          /\ kv' = kv /\ posts' = posts]_vars

\* a failed resolve action on an incident whose record and message exist
C28_Witness ==
    /\ act # None /\ RemoteFailed(Get(act))
    /\ Get(act).req.action = ActionResolve
    /\ Get(act).out.remote[1].api = "update"
    /\ Get(act).out.status = StatusInternalServerError
    /\ IsSome(Record(kv, Get(act).req.incidentID))
    /\ PostExists(posts, Get(Record(kv, Get(act).req.incidentID)).PostID)

\* the HTTP statuses that report success
Success == 200..299

\* C24 (SpecClient): the client never retries: every operation (get, list,
\* update, assign, list users) sends exactly one HTTP request, the one it
\* built, and when no response comes or the response is not a success the
\* operation returns an error after that one request.
C24_NoRetry ==
    client # None =>
        LET c == Get(client)
        IN /\ c.result.sent = <<c.request>>
           /\ (~c.reply.received \/ c.reply.status \notin Success) => ~c.result.ok

\* an update that the server answered with 500
C24_Witness ==
    /\ client # None
    /\ Get(client).op = "update"
    /\ Get(client).reply.received
    /\ Get(client).reply.status = StatusInternalServerError
    /\ Len(Get(client).result.sent) = 1
    /\ ~Get(client).result.ok

\* C25 (SpecClient): an operation that received a response fails exactly when
\* the status is not 2xx, and its error then carries the status and the body;
\* every 2xx response with a decodable body yields success.
C25_StatusDecides ==
    (client # None /\ Get(client).reply.received) =>
        LET c == Get(client)
        IN /\ c.reply.status \notin Success
                => /\ ~c.result.ok
                   /\ c.result.status = c.reply.status
                   /\ c.result.body = c.reply.body
           /\ (c.reply.status \in Success /\ c.reply.decodes) => c.result.ok

\* C26 (SpecClient): the request of an update or an assignment carries the
\* From header exactly when the acting user's email is not empty, and the
\* header then is that email.
C26_FromHeader ==
    (client # None /\ Get(client).op \in {"update", "assign"}) =>
        LET c == Get(client)
        IN /\ IsSome(c.request.from) <=> c.email # ""
           /\ IsSome(c.request.from) => Get(c.request.from) = c.email

\* an update on behalf of a user without email is sent without the header
C26_Witness ==
    /\ client # None
    /\ Get(client).op = "update"
    /\ Get(client).email = ""
    /\ Get(client).request.from = None
    /\ Get(client).result.sent = <<Get(client).request>>

\* C29 (SpecClient): on every call path (/pagerduty list, /pagerduty get by
\* number, GET /api/v1/incidents) the list call of the client is given a
\* limit that is a positive integer not above 25; /pagerduty list gives 10
\* unless one of its limit parameters is such an integer.
C29_LimitCapped ==
    (client # None /\ Get(client).op = "ListIncidents") =>
        LET c == Get(client)
            limit == c.request.query.limit
            valid == {i \in DOMAIN c.params :
                         /\ c.params[i].key = "limit"
                         /\ Atoi(c.params[i].value).ok
                         /\ Atoi(c.params[i].value).n \in 1..25}
        IN /\ IsSome(limit)
           /\ Atoi(Get(limit)).ok
           /\ Atoi(Get(limit)).n \in 1..25
           /\ (c.entry = "/pagerduty list" /\ valid = {}) => limit = Some(DefaultLimit)

\* C30 (SpecClient): OnActivate fails, leaving no PagerDuty client and no
\* registered slash command, whenever the API key is empty; with a key it
\* fails only when the registration of the command fails, whether or not the
\* bot account could be ensured.
C30_Activation ==
    plugin.activated =>
        /\ plugin.env.apiKey = ""
              => /\ plugin.out.err # ""
                 /\ ~plugin.out.pdClient
                 /\ ~plugin.out.registered
        /\ plugin.env.apiKey # ""
              => (plugin.out.err = "" <=> plugin.env.registerOk)
        /\ plugin.out.err = "" => plugin.out.pdClient /\ plugin.out.registered

\* activation failed for want of a key, though the bot account was ensured
C30_Witness ==
    /\ plugin.activated
    /\ plugin.env.apiKey = "" /\ plugin.env.botOk /\ plugin.env.registerOk
    /\ plugin.out.err = "failed to initialize PagerDuty client"
    /\ ~plugin.out.pdClient /\ ~plugin.out.registered
    /\ client = None

C32_LastWriterWins ==
    \A w \in Workers :
        (Done(w) /\ Recognized(w) /\ resp[w] = StatusOK)
        => /\ IsSome(Record(kv, Message(w).Incident.ID))
           /\ Get(Record(kv, Message(w).Incident.ID)).Incident = Message(w).Incident

\* a Resolved event overwrote the snapshot an earlier event had left
C32_Witness ==
    \E w \in Workers :
        /\ Done(w) /\ Recognized(w) /\ resp[w] = StatusOK
        /\ Message(w).Event = EventIncidentResolved
        /\ Succeeded(w, "UpdatePost")
        /\ IsSome(pre[w].rec)
        /\ Get(pre[w].rec).Incident.Status = StatusAcknowledged
        /\ Get(Record(kv, "INC1")).Incident.Status = StatusResolved

\* C33 (Spec): on the update path UpdatePost is called before the record is
\* written; a delivery whose UpdatePost failed is answered 500, having
\* created no message and written no record: the record is the one that was
\* there on arrival.
C33_FailedUpdateKeepsRecord ==
    \A w \in Workers :
        /\ \A i \in CallsTo(w, "UpdatePost"), j \in CallsTo(w, "KVSet") : i < j
        /\ (Done(w) /\ CallsTo(w, "UpdatePost") # {} /\ ~Succeeded(w, "UpdatePost"))
           => /\ resp[w] = StatusInternalServerError
              /\ CallsTo(w, "CreatePost") = {}
              /\ CallsTo(w, "KVSet") = {}
              /\ Record(kv, Message(w).Incident.ID) = pre[w].rec

C33_Witness ==
    \E w \in Workers :
        /\ Done(w) /\ Recognized(w)
        /\ Succeeded(w, "GetPost")
        /\ CallsTo(w, "UpdatePost") # {} /\ ~Succeeded(w, "UpdatePost")
        /\ resp[w] = StatusInternalServerError
        /\ IsSome(pre[w].rec)
        /\ Get(pre[w].rec).Incident # Message(w).Incident
        /\ Record(kv, Message(w).Incident.ID) = pre[w].rec

\* C37 (Spec): a delivery calls CreatePost at most once, UpdatePost at most
\* once and never both, and KVSet at most once; KVSet is called only after a
\* CreatePost or UpdatePost call of the same delivery succeeded.
C37_CallDiscipline ==
    \A w \in Workers :
        /\ Cardinality(CallsTo(w, "CreatePost")) <= 1
        /\ Cardinality(CallsTo(w, "UpdatePost")) <= 1
        /\ CallsTo(w, "CreatePost") = {} \/ CallsTo(w, "UpdatePost") = {}
        /\ Cardinality(CallsTo(w, "KVSet")) <= 1
        /\ \A j \in CallsTo(w, "KVSet") :
              \E i \in 1..(j - 1) :
                  /\ calls[w][i].api \in {"CreatePost", "UpdatePost"}
                  /\ calls[w][i].ok

\* the message of the record was gone: GetPost failed, one message was
\* created and the record written once
C37_Witness ==
    \E w \in Workers :
        /\ Done(w) /\ Recognized(w) /\ resp[w] = StatusOK
        /\ CallsTo(w, "GetPost") # {} /\ ~Succeeded(w, "GetPost")
        /\ Cardinality(CallsTo(w, "CreatePost")) = 1
        /\ CallsTo(w, "UpdatePost") = {}
        /\ Cardinality(CallsTo(w, "KVSet")) = 1

\* C38 (Spec): when the destination channel cannot be resolved, an event of
\* a recognized kind is answered 500 before the store is read and before any
\* message is looked up, created or updated, also when the incident's record
\* and message exist.
C38_ChannelFirst ==
    \A w \in Workers :
        (Done(w) /\ Recognized(w) /\ ~Succeeded(w, "GetChannel"))
        => /\ resp[w] = StatusInternalServerError
           /\ calls[w] = <<Call("GetChannel", FALSE)>>
           /\ Record(kv, Message(w).Incident.ID) = pre[w].rec

C38_Witness ==
    \E w \in Workers :
        /\ Done(w) /\ Recognized(w) /\ ~Succeeded(w, "GetChannel")
        /\ Message(w).Event = EventIncidentAcknowledged
        /\ IsSome(pre[w].rec) /\ pre[w].alive
        /\ PostExists(posts, Get(pre[w].rec).PostID)
        /\ resp[w] = StatusInternalServerError

\* C34 (SpecAct): a reassign request whose body carries no assignee_id (empty
\* or absent) performs no remote mutation: no assign call is issued, and none
\* with an empty assignee.
C34_NoEmptyAssign ==
    act # None =>
        ((Get(act).req.action = ActionReassign /\ Get(act).req.assignee_id = "")
         => \A i \in DOMAIN Get(act).out.remote :
               /\ Get(act).out.remote[i].api # "assign"
               /\ Get(act).out.remote[i].assignees # <<"">>)

\* C35 (Spec), as claimed: a delivery answered 500 created no message,
\* updated no message and wrote no record.
C35_ErrorLeavesNoTrace ==
    \A w \in Workers :
        (Done(w) /\ Recognized(w) /\ resp[w] = StatusInternalServerError)
        => /\ ~Succeeded(w, "CreatePost")
           /\ ~Succeeded(w, "UpdatePost")
           /\ ~Succeeded(w, "KVSet")
           /\ Record(kv, Message(w).Incident.ID) = pre[w].rec

\* C35 (Spec), amended: a delivery answered 500 wrote no record, and it
\* created or updated a message only when the call that failed was the write
\* of the record, which is the last call it made.
C35_ErrorWroteNoRecord ==
    \A w \in Workers :
        (Done(w) /\ Recognized(w) /\ resp[w] = StatusInternalServerError)
        => /\ ~Succeeded(w, "KVSet")
           /\ Record(kv, Message(w).Incident.ID) = pre[w].rec
           /\ ((Succeeded(w, "CreatePost") \/ Succeeded(w, "UpdatePost"))
               => (/\ calls[w] # <<>>
                   /\ calls[w][Len(calls[w])] = Call("KVSet", FALSE)))

\* a message was created, the write of the record failed: 500, the message
\* stays and no record points at it
C35_Witness ==
    \E w \in Workers :
        /\ Done(w) /\ Recognized(w) /\ resp[w] = StatusInternalServerError
        /\ Succeeded(w, "CreatePost")
        /\ CallsTo(w, "KVSet") # {} /\ ~Succeeded(w, "KVSet")
        /\ pre[w].rec = None
        /\ Record(kv, Message(w).Incident.ID) = None
        /\ Len(posts) = 1

\* C36 (SpecRace): when the deliveries in flight for an incident, handled
\* concurrently, have all completed successfully, the snapshot in the
\* incident's record is the incident rendered in the message the record
\* references.
C36_RecordMatchesMessage ==
    (\A w \in Workers : Done(w) /\ Recognized(w) /\ resp[w] = StatusOK)
    => \A id \in IncidentIDs :
          IsSome(Record(kv, id))
          => /\ Get(Record(kv, id)).PostID \in DOMAIN posts
             /\ posts[Get(Record(kv, id)).PostID].Props
                    = createIncidentProps(Get(Record(kv, id)).Incident)

\* the remote calls the router's handlers issue for request r when the
\* collaborators answer as in e
RemoteCallsOf(r, e) ==
    serveHTTP(r, e.userOk, e.email, e.remoteOk, e.users, e.returned).out.remote

\* C39 (SpecRoute): the remote call made for an action request targets the
\* incident and the action kind of the URL path, and the same request with
\* any other incident_id, action and user_id in its JSON body issues the same
\* remote call.
C39_PathDecides ==
    (act # None /\ Get(act).handler = "HandleIncidentAction")
    => /\ \A i \in DOMAIN Get(act).out.remote :
             LET c == Get(act).out.remote[i]
             IN /\ c.api = "update"
                   => /\ c.id = Get(act).req.incidentID
                      /\ Some(c.status) = ActionStatus(PathAction(Get(act).req.path))
                /\ c.api = "assign"
                   => /\ c.id = Get(act).req.incidentID
                      /\ Get(act).req.path = PathReassign
                /\ c.api = "listUsers" => Get(act).req.path = PathReassign
       /\ \A b \in ActionBodies :
             (b.incident_id # "" <=> Get(act).req.body.incident_id # "")
             => RemoteCallsOf([Get(act).req EXCEPT !.body = b], Get(act).env)
                    = Get(act).out.remote

\* a resolve request for INC1 whose body names INC2, acknowledge and another
\* user resolved INC1
C39_Witness ==
    /\ act # None
    /\ Get(act).handler = "HandleIncidentAction"
    /\ Get(act).req.path = PathResolve
    /\ Get(act).req.incidentID = "INC1"
    /\ Get(act).req.body = [incident_id |-> "INC2", action |-> ActionAcknowledge,
                            user_id |-> "mmuser2"]
    /\ Len(Get(act).out.remote) = 1
    /\ Get(act).out.remote[1].api = "update"
    /\ Get(act).out.remote[1].id = "INC1"
    /\ Get(act).out.remote[1].status = StatusResolved

\* C40 (Spec): every stored record is consistent with its key: the record
\* under "incident_attachments:" + X has ID X and a snapshot of incident X,
\* and its PostID is that of a message CreatePost returned for incident X.
C40_RecordMatchesKey ==
    \A id \in IncidentIDs :
        IsSome(kv[Key(id)])
        => LET rec == Unmarshal(Get(kv[Key(id)]))
           IN /\ rec.ID = id
              /\ rec.Incident.ID = id
              /\ rec.PostID \in DOMAIN posts
              /\ posts[rec.PostID].Props.IncidentID = id

\* both incidents have a record, each naming its own message
C40_Witness ==
    /\ IsSome(Record(kv, "INC1")) /\ IsSome(Record(kv, "INC2"))
    /\ Get(Record(kv, "INC1")).PostID # Get(Record(kv, "INC2")).PostID
    /\ Get(Record(kv, "INC1")).Incident.Status = StatusAcknowledged
    /\ posts[Get(Record(kv, "INC2")).PostID].Props.IncidentID = "INC2"

====
